---- MODULE Spec2Model ----
(***************************************************************************)
(* A model of the polyfuse session core.                                   *)
(*                                                                         *)
(*   SpecInit  the INIT handshake of crates/polyfuse (init / try_init)     *)
(*   Spec      an established crates/polyfuse Session: exit, notify_*,     *)
(*             next_request, Request::operation / reply / reply_error      *)
(*   SpecNotify   the same Session with two tasks that call notify_*       *)
(*   SpecRequest  the same Session with two Requests held at a time        *)
(*   SpecLow   the low-level driver of src/session.rs: Session::process,   *)
(*             enable_interrupt / interrupt and the Context of a handler   *)
(*   SpecReply the same driver with handlers that reply in every way and   *)
(*             a transport that may take a part of a frame                 *)
(*   SpecStart the handshake of src/session.rs (Session::start)            *)
(*   SpecIntake  the handshake of crates/polyfuse followed by next_request *)
(*             and the dispatch of a DESTROY                               *)
(*   SpecOps   Session::process of src/session.rs on RELEASE and SETLK     *)
(*   SpecConfig  the setters of Config                                     *)
(*   SpecHello the readdir of the hello example                            *)
(*                                                                         *)
(* Capability words are modelled as the set of the bits that are set, so   *)
(* that &, | and !x are intersection, union and complement.                *)
(***************************************************************************)
EXTENDS Integers, Sequences, FiniteSets, TLC

\* ------------------------------------------------------------------------
\* Bounds of the model
\* ------------------------------------------------------------------------

\* The writer of the handshake keeps the last MaxLog frames it was given.
MaxLog == 2

\* ------------------------------------------------------------------------
\* Constants of the program
\* ------------------------------------------------------------------------

MINIMUM_SUPPORTED_MINOR_VERSION == 23
MAX_MAX_PAGES == 256
BUFFER_HEADER_SIZE == 4096
InitAttempts == 10
FUSE_KERNEL_VERSION == 7
FUSE_KERNEL_MINOR_VERSION == 31
U16_MAX == 65535
EPROTO == 71
EIO == 5
ENOSYS == 38
\* The page size the process runs with (sysconf(_SC_PAGESIZE)).
PageSize == 4096
SizeOfOutHeader == 16
SizeOfInitOut == 64
DEFAULT_MAX_WRITE == 16777216
MAX_WRITE_SIZE == 16777216

\* A u32 is kept as its 32-bit pattern read as a two's complement integer:
\* 0 .. 2^31-1 stand for themselves and 2^31 .. 2^32-1 are the negative
\* numbers, so u32::max_value() is -1.  ULe is the unsigned order.
U32_MAX == -1

ULe(a, b) == IF (a < 0) = (b < 0) THEN a <= b ELSE a >= 0

UMin(a, b) == IF ULe(a, b) THEN a ELSE b

\* x / d for a u32 x and 0 < d < 2^16.
UDiv(x, d) ==
    IF x >= 0 THEN x \div d
    ELSE LET m == 2147483647
             y == (x + m) + 1
         IN  (m \div d) + (y \div d) + (((m % d) + (y % d) + 1) \div d)

\* ------------------------------------------------------------------------
\* Capability flags
\* ------------------------------------------------------------------------

CapabilityFlags_all ==
    { "ASYNC_READ", "ATOMIC_O_TRUNC", "AUTO_INVAL_DATA", "ASYNC_DIO",
      "PARALLEL_DIROPS", "HANDLE_KILLPRIV", "POSIX_LOCKS", "FLOCK_LOCKS",
      "EXPORT_SUPPORT", "DONT_MASK", "WRITEBACK_CACHE", "POSIX_ACL",
      "READDIRPLUS", "READDIRPLUS_AUTO" }

CapabilityFlags_default ==
    { "ASYNC_READ", "PARALLEL_DIROPS", "AUTO_INVAL_DATA", "HANDLE_KILLPRIV",
      "ASYNC_DIO", "ATOMIC_O_TRUNC" }

from_bits_truncate(bits) == bits \cap CapabilityFlags_all

\* ------------------------------------------------------------------------
\* Config
\* ------------------------------------------------------------------------

Config_default ==
    [ max_readahead        |-> U32_MAX,
      flags                |-> CapabilityFlags_default,
      max_background       |-> 0,
      congestion_threshold |-> 0,
      max_write            |-> DEFAULT_MAX_WRITE,
      time_gran            |-> 1 ]

\* The configurations the handshake is run with: the default one and three
\* that the setters of Config reach.
Configs ==
    { Config_default,
      [ max_readahead |-> 16, flags |-> { "ASYNC_READ", "POSIX_LOCKS" },
        max_background |-> 8, congestion_threshold |-> 6,
        max_write |-> 4097, time_gran |-> 1000 ],
      [ Config_default EXCEPT !.max_write = 0 ],
      [ Config_default EXCEPT !.max_write = U32_MAX, !.max_readahead = 64 ] }

\* ------------------------------------------------------------------------
\* Frames written to the kernel channel (ReplySender)
\* ------------------------------------------------------------------------

NoPayload == [ t |-> "empty" ]

\* The total length of a list of byte segments.
RECURSIVE SumLen(_)
SumLen(segs) == IF segs = << >> THEN 0 ELSE Len(Head(segs)) + SumLen(Tail(segs))

SizeOf(payload) ==
    CASE payload.t = "empty"         -> 0
      [] payload.t = "fuse_init_out" -> SizeOfInitOut
      [] payload.t = "bytes"         -> payload.n
      [] payload.t = "segments"      -> SumLen(payload.segs)
      [] OTHER                       -> payload.size

\* ReplySender::reply: a header with error = 0 followed by the payload.
ReplySender_reply(unique, payload) ==
    [ len |-> SizeOfOutHeader + SizeOf(payload), error |-> 0,
      unique |-> unique, payload |-> payload ]

\* ReplySender::error: a header with the negated code and no body.
ReplySender_error(unique, code) ==
    [ len |-> SizeOfOutHeader, error |-> -code,
      unique |-> unique, payload |-> NoPayload ]

\* ReplySender::notify: a header with unique = 0 and the code as error.
ReplySender_notify(code, payload) ==
    [ len |-> SizeOfOutHeader + SizeOf(payload), error |-> code,
      unique |-> 0, payload |-> payload ]

\* ------------------------------------------------------------------------
\* State
\* ------------------------------------------------------------------------

VARIABLES
    \* the handshake (init)
    config,         \* the Config passed to Session::start
    attempt,        \* iterations of the loop of init that have run
    header,         \* the fuse_in_header buffer of init
    arg,            \* the argument buffer of init, read as a fuse_init_in
    nfields,        \* how many fields of arg the last read has written
    init_result,    \* "running", or the way Session::start has ended
    \* the Session
    conn,           \* ConnectionInfo
    bufsize,
    exited,
    notify_unique,
    \* the kernel channel
    writer,         \* the frames written
    nwritten,       \* how many frames the handshake has written
    \* the users of an established Session
    pend,           \* per task: its notify_* call under way
    reqs,           \* per slot: the Request that next_request has yielded
    reading,        \* the turn of its read loop a next_request call is in, or 0
    ret,            \* what the last call that returned has returned
    \* Session::process (src/session.rs)
    state,          \* SessionState behind the Mutex
    procs           \* per slot: the call of Session::process under way

initVars == << config, attempt, header, arg, nfields, init_result >>
sessVars == << conn, bufsize, exited, notify_unique >>
chanVars == << writer, nwritten >>
userVars == << pend, reqs, reading, ret >>
lowVars == << state, procs >>
vars == << initVars, sessVars, chanVars, userVars, lowVars >>

\* ------------------------------------------------------------------------
\* The INIT handshake (crates/polyfuse/src/session.rs: init, try_init)
\* ------------------------------------------------------------------------

KernelOnlyFlags == { "MAX_PAGES", "NO_OPEN_SUPPORT", "NO_OPENDIR_SUPPORT" }

\* What a kernel may offer in flags: everything (with a bit polyfuse does not
\* know), or a few bits without MAX_PAGES.
OfferFull == CapabilityFlags_all \cup KernelOnlyFlags \cup { "SPLICE_WRITE" }
OfferPart == { "ASYNC_READ", "POSIX_LOCKS", "NO_OPEN_SUPPORT" }

\* The fuse_init_in values the transport delivers.
KernelOffers ==
    { [ major |-> 8, minor |-> 32, max_readahead |-> 40, flags |-> OfferFull ],
      [ major |-> 6, minor |-> 31, max_readahead |-> 40, flags |-> OfferPart ],
      [ major |-> 7, minor |-> 22, max_readahead |-> 8,  flags |-> OfferFull ],
      [ major |-> 7, minor |-> 23, max_readahead |-> 40, flags |-> OfferFull ],
      [ major |-> 7, minor |-> 32, max_readahead |-> 8,  flags |-> OfferPart ] }

\* A frame carries its whole fuse_init_in, only its first field, or none.
FieldCounts == { 0, 1, 4 }

Opcodes == { "FUSE_INIT", "FUSE_GETATTR" }

\* The unique of the n-th frame the kernel sends (the kernel numbers its
\* requests in steps of two).
KernelUnique(n) == 2 * (n + 1)

ZeroInitIn == [ major |-> 0, minor |-> 0, max_readahead |-> 0, flags |-> {} ]

\* read_vectored into [header, arg]: the bytes received overwrite the front
\* of the buffer and the rest keeps what it held.
ReadInto(buf, in, n) ==
    [ major         |-> IF n >= 1 THEN in.major ELSE buf.major,
      minor         |-> IF n >= 2 THEN in.minor ELSE buf.minor,
      max_readahead |-> IF n >= 3 THEN in.max_readahead ELSE buf.max_readahead,
      flags         |-> IF n >= 4 THEN in.flags ELSE buf.flags ]

\* fuse_init_out::default() alone: major and minor are not filled in.
InitOutDefault_zeroed ==
    [ t |-> "fuse_init_out", major |-> 0, minor |-> 0,
      max_readahead |-> 0, flags |-> {}, max_background |-> 0,
      congestion_threshold |-> 0, max_write |-> 0, time_gran |-> 0,
      max_pages |-> 0 ]

\* fuse_init_out::default() with major and minor set (try_init).
InitOutDefault ==
    [ t |-> "fuse_init_out",
      major |-> FUSE_KERNEL_VERSION, minor |-> FUSE_KERNEL_MINOR_VERSION,
      max_readahead |-> 0, flags |-> {}, max_background |-> 0,
      congestion_threshold |-> 0, max_write |-> 0, time_gran |-> 0,
      max_pages |-> 0 ]

Min(a, b) == IF a <= b THEN a ELSE b

\* init_out.max_write - 1 in u32, for max_write /= 0.
USub1(x) == IF x = (-2147483647) - 1 THEN 2147483647 ELSE x - 1

\* min((max_write - 1) / pagesize + 1, u16::MAX) as u16.  For max_write = 0
\* the subtraction overflows: a build with overflow checks panics, one
\* without wraps to u32::MAX.
MaxPagesOutcomes(max_write) ==
    IF max_write = 0
    THEN { [ panic |-> TRUE, pages |-> 0 ],
           [ panic |-> FALSE,
             pages |-> UMin(UDiv(U32_MAX, PageSize) + 1, U16_MAX) ] }
    ELSE { [ panic |-> FALSE,
             pages |-> UMin(UDiv(USub1(max_write), PageSize) + 1, U16_MAX) ] }

\* NegotiatedInitOut that sends the flags of Config without masking them
\* with what the kernel offers.
NegotiatedInitOut_unmasked(cfg, init_in) ==
    [ InitOutDefault EXCEPT
        !.minor = Min(FUSE_KERNEL_MINOR_VERSION, init_in.minor),
        !.flags = cfg.flags \cup { "BIG_WRITES" },
        !.max_readahead = UMin(cfg.max_readahead, init_in.max_readahead),
        !.max_write = cfg.max_write,
        !.max_background = cfg.max_background,
        !.congestion_threshold = cfg.congestion_threshold,
        !.time_gran = cfg.time_gran ]

\* The fuse_init_out of a successful handshake, max_pages left aside.
NegotiatedInitOut(cfg, init_in) ==
    [ InitOutDefault EXCEPT
        !.minor = Min(FUSE_KERNEL_MINOR_VERSION, init_in.minor),
        !.flags = (cfg.flags \cap from_bits_truncate(init_in.flags))
                      \cup { "BIG_WRITES" },
        !.max_readahead = UMin(cfg.max_readahead, init_in.max_readahead),
        !.max_write = cfg.max_write,
        !.max_background = cfg.max_background,
        !.congestion_threshold = cfg.congestion_threshold,
        !.time_gran = cfg.time_gran ]

NoConn == InitOutDefault

\* A ConnectionInfo that keeps the fuse_init_out as it was sent.
ConnectionInfoOf_sent(out, readonly_flags) == out

\* init_out.flags |= readonly_flags; ConnectionInfo(init_out)
ConnectionInfoOf(out, readonly_flags) ==
    [ out EXCEPT !.flags = @ \cup readonly_flags ]

\* The accessors of ConnectionInfo.
ConnectionInfo_flags(c) == from_bits_truncate(c.flags)
ConnectionInfo_no_open_support(c) == "NO_OPEN_SUPPORT" \in c.flags
ConnectionInfo_no_opendir_support(c) == "NO_OPENDIR_SUPPORT" \in c.flags
ConnectionInfo_max_pages(c) ==
    IF "MAX_PAGES" \in c.flags THEN [ some |-> TRUE, pages |-> c.max_pages ]
                                ELSE [ some |-> FALSE, pages |-> 0 ]

\* The last arm of try_init that takes the request for the session's INIT.
try_init_other_accepted(hdr) ==
    { [ ret |-> "Some",
        frames |-> << ReplySender_reply(hdr.unique, InitOutDefault) >>,
        conn |-> NoConn ] }

\* try_init on a request that is not an INIT: an EIO reply, and Ok(None).
try_init_other(hdr) ==
    { [ ret |-> "None",
        frames |-> << ReplySender_error(hdr.unique, EIO) >>,
        conn |-> NoConn ] }

\* try_init: the set of its outcomes, each [ret, frames, conn]: ret is "Some"
\* (a session), "None" (go on) or "panic"; frames are the frames handed to the
\* writer; conn is the ConnectionInfo of the session.
try_init(cfg, hdr, buf) ==
    IF hdr.opcode = "FUSE_INIT"
    THEN LET init_in == buf
             readonly_flags == init_in.flags \ CapabilityFlags_all
             out == NegotiatedInitOut(cfg, init_in)
         IN  IF init_in.major > 7
             THEN { [ ret |-> "None",
                      frames |-> << ReplySender_reply(hdr.unique, InitOutDefault) >>,
                      conn |-> NoConn ] }
             ELSE IF init_in.major < 7
                     \/ init_in.minor < MINIMUM_SUPPORTED_MINOR_VERSION
             THEN { [ ret |-> "None",
                      frames |-> << ReplySender_error(hdr.unique, EPROTO) >>,
                      conn |-> NoConn ] }
             ELSE IF "MAX_PAGES" \in init_in.flags
             THEN { IF mp.panic
                    THEN [ ret |-> "panic", frames |-> << >>, conn |-> NoConn ]
                    ELSE LET o == [ out EXCEPT
                                      !.flags = @ \cup { "MAX_PAGES" },
                                      !.max_pages = mp.pages ]
                         IN  [ ret |-> "Some",
                               frames |-> << ReplySender_reply(hdr.unique, o) >>,
                               conn |-> ConnectionInfoOf(o, readonly_flags) ]
                    : mp \in MaxPagesOutcomes(out.max_write) }
             ELSE { [ ret |-> "Some",
                      frames |-> << ReplySender_reply(hdr.unique, out) >>,
                      conn |-> ConnectionInfoOf(out, readonly_flags) ] }
    ELSE try_init_other(hdr)

\* The writer keeps the last MaxLog frames.
Push(log, f) ==
    IF Len(log) < MaxLog THEN Append(log, f) ELSE Append(Tail(log), f)

\* BUFFER_HEADER_SIZE + max_write as usize: the two summands.
BufSize(c) == [ header |-> BUFFER_HEADER_SIZE, arg |-> c.max_write ]

NoHeader == [ opcode |-> "none", unique |-> 0 ]

\* The users of a session: tasks that notify, slots that hold a Request.
Tasks == { "a", "b" }
Slots == { 1, 2 }

NoCall == [ op |-> "none", stage |-> "none", unique |-> 0 ]
NoReq  == [ opcode |-> "none", unique |-> 0, arglen |-> 0 ]
NoRet  == [ op |-> "none", val |-> "none", unique |-> 0, frames |-> 0 ]

\* The requests Session::process is called with carry one of these ids.
LowUniques == { 42, 44 }

\* An entry of SessionState.remains: whether the map holds a Sender for the
\* id, and the slot whose handler holds the Receiver (0 once it is dropped).
NoSender == [ tx |-> FALSE, rx |-> 0 ]

\* The argument of a RELEASE or SETLK request as the kernel sent it: the
\* flag words as sets of bits, fuse_file_lock.typ, and the sleep member of
\* RequestKind::Setlk.
NoArg == [ release_flags |-> {}, lk_flags |-> {}, typ |-> 0, sleep |-> FALSE ]

\* No Operation was built for the filesystem.
NoOp ==
    [ variant |-> "none", flush |-> FALSE, flock_release |-> FALSE,
      lock_owner |-> FALSE, op |-> 0, sleep |-> FALSE ]

NoProc ==
    [ kind |-> "none", unique |-> 0, target |-> 0, data |-> FALSE,
      arg |-> NoArg, op |-> NoOp,
      pc |-> "idle", sig |-> "none", nsig |-> 0, early |-> FALSE,
      nreplies |-> 0, ret |-> "none" ]

\* SessionState as Session::start builds it, and no call of process.
NoLow ==
    /\ state = [ exited |-> FALSE,
                 remains |-> [ u \in LowUniques |-> NoSender ],
                 interrupted |-> {} ]
    /\ procs = [ i \in Slots |-> NoProc ]

NoUsers ==
    /\ pend = [ t \in Tasks |-> NoCall ]
    /\ reqs = [ i \in Slots |-> NoReq ]
    /\ reading = 0
    /\ ret = NoRet

InitHandshake ==
    /\ config \in Configs
    /\ attempt = 0
    /\ header = NoHeader
    /\ arg = ZeroInitIn
    /\ nfields = 0
    /\ init_result = "running"
    /\ conn = NoConn
    /\ bufsize = BufSize(NoConn)
    /\ exited = FALSE
    /\ notify_unique = 0
    /\ writer = << >>
    /\ nwritten = 0
    /\ NoUsers
    /\ NoLow

\* The read of init fails: the error is returned as it is.
InitReadError ==
    /\ init_result = "running"
    /\ attempt' = attempt + 1
    /\ init_result' = "Err_read"
    /\ UNCHANGED << config, header, arg, nfields, sessVars, chanVars, userVars,
                    lowVars >>

\* The read of init returns fewer bytes than a fuse_in_header.
InitShortRead ==
    /\ init_result = "running"
    /\ attempt' = attempt + 1
    /\ init_result' = "Err_InvalidData"
    /\ UNCHANGED << config, header, arg, nfields, sessVars, chanVars, userVars,
                    lowVars >>

\* One turn of the loop of init on a frame of at least a header: the read,
\* try_init, its write, and the end of the loop after the last turn.
InitFrame ==
    /\ init_result = "running"
    /\ \E op \in Opcodes, in \in KernelOffers, n \in FieldCounts, wok \in BOOLEAN :
        LET hdr == [ opcode |-> op, unique |-> KernelUnique(attempt) ]
            k   == IF op = "FUSE_INIT" THEN n ELSE 0
            buf == ReadInto(arg, in, k)
        IN  /\ header' = hdr
            /\ arg' = buf
            /\ nfields' = k
            /\ attempt' = attempt + 1
            /\ \E o \in try_init(config, hdr, buf) :
                IF o.ret = "panic"
                THEN /\ init_result' = "panic"
                     /\ UNCHANGED << sessVars, chanVars >>
                ELSE IF ~wok
                THEN /\ init_result' = "Err_write"
                     /\ UNCHANGED << sessVars, chanVars >>
                ELSE /\ writer' = Push(writer, o.frames[1])
                     /\ nwritten' = nwritten + 1
                     /\ IF o.ret = "Some"
                        THEN /\ init_result' = "Ok"
                             /\ conn' = o.conn
                             /\ bufsize' = BufSize(o.conn)
                             /\ exited' = FALSE
                             /\ notify_unique' = 0
                        ELSE /\ init_result' =
                                   IF attempt + 1 = InitAttempts
                                   THEN "Err_ConnectionRefused" ELSE "running"
                             /\ UNCHANGED sessVars
    /\ UNCHANGED << config, userVars, lowVars >>

NextInit == InitReadError \/ InitShortRead \/ InitFrame

SpecInit == InitHandshake /\ [][NextInit]_vars

\* ------------------------------------------------------------------------
\* Claims about the handshake
\* ------------------------------------------------------------------------

LastFrame(log) == log[Len(log)]

\* A turn of the loop of init has handled a frame whose write was accepted.
TurnDone ==
    /\ init_result = "running"
    /\ attempt' = attempt + 1
    /\ init_result' \notin { "Err_read", "Err_InvalidData", "Err_write" }

\* C1: when init reads a complete INIT frame with major = 7 and minor >= 23
\* (and the channel accepts the write), exactly one frame is written: error
\* = 0, the unique of the request, a fuse_init_out with major 7, minor =
\* min(ours, the kernel's), max_readahead = min(Config's, the kernel's) and
\* max_write, max_background, congestion_threshold, time_gran of Config;
\* and Session::start returns a session.
C1_ValidInitIsAnswered ==
    [][ ( /\ TurnDone
          /\ header'.opcode = "FUSE_INIT" /\ nfields' = 4
          /\ arg'.major = 7 /\ arg'.minor >= 23 )
        => ( /\ nwritten' = nwritten + 1
             /\ init_result' = "Ok"
             /\ LET f == LastFrame(writer')
                IN  /\ f.error = 0
                    /\ f.unique = header'.unique
                    /\ f.len = 16 + 64
                    /\ f.payload.t = "fuse_init_out"
                    /\ f.payload.major = 7
                    /\ f.payload.minor =
                         (IF arg'.minor < 31 THEN arg'.minor ELSE 31)
                    /\ f.payload.max_readahead =
                         (IF ULe(config.max_readahead, arg'.max_readahead)
                          THEN config.max_readahead ELSE arg'.max_readahead)
                    /\ f.payload.max_write = config.max_write
                    /\ f.payload.max_background = config.max_background
                    /\ f.payload.congestion_threshold
                         = config.congestion_threshold
                    /\ f.payload.time_gran = config.time_gran ) ]_vars

\* C1, the case that fails: the frame of C1 was read and no session returned.
C1_Witness ==
    /\ header.opcode = "FUSE_INIT" /\ nfields = 4
    /\ arg.major = 7 /\ arg.minor >= 23
    /\ init_result = "panic"

EprotoReplied == \E i \in DOMAIN writer : writer[i].error = -71

\* C2: once an INIT request of an unsupported version (major < 7 or minor <
\* 23) has been answered with an EPROTO error, Session::start does not return
\* a session, whatever frames follow.
C2_UnsupportedVersionFails == EprotoReplied => init_result # "Ok"

MaxNotify == 2
\* A call of next_request is given at most MaxReads reads, so at most
\* MaxReads - 1 of them report ENOENT.
MaxReads == 3

\* fuse_notify_code
FUSE_NOTIFY_POLL == 1
FUSE_NOTIFY_INVAL_INODE == 2
FUSE_NOTIFY_INVAL_ENTRY == 3
FUSE_NOTIFY_STORE == 4
FUSE_NOTIFY_RETRIEVE == 5
FUSE_NOTIFY_DELETE == 6

\* The handshakes the sessions of Spec come from.
SessionStarts ==
    { [ cfg |-> Config_default,
        in  |-> [ major |-> 7, minor |-> 23, max_readahead |-> 40,
                  flags |-> OfferFull ] ],
      [ cfg |-> [ max_readahead |-> 16, flags |-> { "ASYNC_READ", "POSIX_LOCKS" },
                  max_background |-> 8, congestion_threshold |-> 6,
                  max_write |-> 4097, time_gran |-> 1000 ],
        in  |-> [ major |-> 7, minor |-> 32, max_readahead |-> 8,
                  flags |-> OfferPart ] ] }

\* The state Session::start leaves behind: the session of try_init, its
\* reply the last frame on the channel, and nobody using the session yet.
InitSession ==
    /\ \E s \in SessionStarts :
         LET hdr == [ opcode |-> "FUSE_INIT", unique |-> KernelUnique(0) ]
         IN  \E o \in try_init(s.cfg, hdr, s.in) :
               /\ o.ret = "Some"
               /\ config = s.cfg
               /\ header = hdr
               /\ arg = s.in
               /\ conn = o.conn
               /\ bufsize = BufSize(o.conn)
               /\ writer = o.frames
    /\ attempt = 1
    /\ nfields = 4
    /\ init_result = "Ok"
    /\ nwritten = 1
    /\ exited = FALSE
    /\ notify_unique = 0
    /\ NoUsers
    /\ NoLow

\* The names and the data the tasks pass to notify_*: bytes as numbers.
Names == { << 104, 105 >> }
DataSegments == { << >>, << << 1, 2 >>, << 3 >> >> }
OneDataSegments == { << << 1, 2 >>, << 3 >> >> }

\* The calls of notify_* the tasks make, storing the data of D.
NotifyCallsOf(D) ==
    { [ op |-> "notify_inval_inode", ino |-> 1, off |-> 0, len |-> 8 ],
      [ op |-> "notify_poll_wakeup", kh |-> 7 ],
      [ op |-> "notify_retrieve", ino |-> 1, offset |-> 0, size |-> 8 ] }
    \cup { [ op |-> "notify_inval_entry", parent |-> 1, name |-> n ] : n \in Names }
    \cup { [ op |-> "notify_delete", parent |-> 1, child |-> 2, name |-> n ]
           : n \in Names }
    \cup { [ op |-> "notify_store", ino |-> 1, offset |-> 0, data |-> d ]
           : d \in D }

NotifyCalls == NotifyCallsOf(DataSegments)

NotifyOps == { c.op : c \in NotifyCalls }

\* A notify_* call that frames its payload the way a reply is framed.
NotifyFrame_as_reply(c, unique) ==
    ReplySender_reply(unique, [ t |-> "bytes", n |-> 8 ])

\* The frame a notify_* call hands to ReplySender::notify; unique is the id
\* notify_retrieve has taken from notify_unique.
NotifyFrame(c, unique) ==
    CASE c.op = "notify_inval_inode" ->
           ReplySender_notify(FUSE_NOTIFY_INVAL_INODE,
             [ t |-> "fuse_notify_inval_inode_out", size |-> 24,
               ino |-> c.ino, off |-> c.off, len |-> c.len ])
      [] c.op = "notify_inval_entry" ->
           ReplySender_notify(FUSE_NOTIFY_INVAL_ENTRY,
             [ t |-> "fuse_notify_inval_entry_out",
               size |-> 16 + Len(c.name) + 1,
               parent |-> c.parent, namelen |-> Len(c.name),
               tail |-> c.name \o << 0 >> ])
      [] c.op = "notify_delete" ->
           ReplySender_notify(FUSE_NOTIFY_DELETE,
             [ t |-> "fuse_notify_delete_out",
               size |-> 24 + Len(c.name) + 1,
               parent |-> c.parent, child |-> c.child,
               namelen |-> Len(c.name), tail |-> c.name \o << 0 >> ])
      [] c.op = "notify_store" ->
           ReplySender_notify(FUSE_NOTIFY_STORE,
             [ t |-> "fuse_notify_store_out",
               size |-> 24 + SumLen(c.data),
               nodeid |-> c.ino, offset |-> c.offset,
               datasize |-> SumLen(c.data), tail |-> c.data ])
      [] c.op = "notify_retrieve" ->
           ReplySender_notify(FUSE_NOTIFY_RETRIEVE,
             [ t |-> "fuse_notify_retrieve_out", size |-> 32,
               notify_unique |-> unique, nodeid |-> c.ino,
               offset |-> c.offset, rsize |-> c.size ])
      [] c.op = "notify_poll_wakeup" ->
           ReplySender_notify(FUSE_NOTIFY_POLL,
             [ t |-> "fuse_notify_poll_wakeup_out", size |-> 8, kh |-> c.kh ])

\* Session::exit, with the flag inverted instead of set.
exit_toggles == ~exited

\* Session::exit: the value stored into exited.
exit == TRUE

\* Session::exited
Session_exited == exited

\* ensure_session_is_alived that never fails.
ensure_session_is_alived_always == TRUE

\* ensure_session_is_alived: Ok (TRUE) unless the session has exited.
ensure_session_is_alived == ~Session_exited

\* Session::exit, also run when the Session is dropped.
Exit ==
    /\ exited' = exit
    /\ UNCHANGED << lowVars, initVars, conn, bufsize, notify_unique, chanVars, userVars >>

\* notify_*, up to ensure_session_is_alived()?: the call returns NotConnected
\* or goes on.
NotifyCheck(T, C) ==
    \E t \in T, c \in C :
        /\ pend[t] = NoCall
        /\ IF ensure_session_is_alived
           THEN /\ pend' = [ pend EXCEPT ![t] =
                               [ op |-> c.op, stage |-> "alive", unique |-> 0,
                                 call |-> c ] ]
                /\ UNCHANGED ret
           ELSE /\ ret' = [ op |-> c.op, val |-> "NotConnected",
                            unique |-> 0, frames |-> 0 ]
                /\ UNCHANGED pend
        /\ UNCHANGED << lowVars, initVars, sessVars, chanVars, reqs, reading >>

\* fetch_add that steps by two.
fetch_add_by_two(counter) == counter + 2

\* fetch_add that loses its increment.
fetch_add_lost(counter) == counter

\* AtomicU64::fetch_add(1): the value the counter holds afterwards.
fetch_add(counter) == counter + 1

\* notify_retrieve: notify_unique.fetch_add(1).
NotifyFetchAdd(T) ==
    \E t \in T :
        /\ pend[t].op = "notify_retrieve"
        /\ pend[t].stage = "alive"
        /\ notify_unique < MaxNotify
        /\ pend' = [ pend EXCEPT ![t].stage = "fetched",
                                 ![t].unique = notify_unique ]
        /\ notify_unique' = fetch_add(notify_unique)
        /\ UNCHANGED << lowVars, initVars, conn, bufsize, exited, chanVars,
                        reqs, reading, ret >>

\* notify_*: the write of the frame, and the return of the call.
NotifyWrite(T) ==
    \E t \in T, wok \in BOOLEAN :
        /\ pend[t].stage =
             (IF pend[t].op = "notify_retrieve" THEN "fetched" ELSE "alive")
        /\ IF wok
           THEN /\ writer' = << NotifyFrame(pend[t].call, pend[t].unique) >>
                /\ ret' = [ op |-> pend[t].op, val |-> "Ok",
                            unique |-> pend[t].unique, frames |-> 1 ]
           ELSE /\ ret' = [ op |-> pend[t].op, val |-> "Err_write",
                            unique |-> 0, frames |-> 0 ]
                /\ UNCHANGED writer
        /\ pend' = [ pend EXCEPT ![t] = NoCall ]
        /\ UNCHANGED << lowVars, initVars, sessVars, nwritten, reqs, reading >>

\* The requests the kernel sends to an established session: arglen tells
\* whether the argument region holds a whole fuse_write_in.
RequestUniques == { 4, 6 }
KernelRequests ==
    { [ opcode |-> op, unique |-> u, arglen |-> "full" ]
        : op \in { "FUSE_GETATTR", "FUSE_WRITE" }, u \in RequestUniques }
    \cup { [ opcode |-> "FUSE_WRITE", unique |-> u, arglen |-> "short" ]
           : u \in RequestUniques }

\* What one read_vectored of next_request gives: a frame of at least a
\* header, fewer bytes than a header, or an error with its errno.
ReadResults == { "frame", "short", "ENODEV", "ENOENT", "EIO" }
ReadErrors == { "ENODEV", "ENOENT", "EIO" }

\* The match of next_request that takes ENODEV for any other error.
next_request_read_enodev_fails(read) ==
    CASE read = "frame"  -> "Some"
      [] read = "short"  -> "Err_InvalidData"
      [] read = "ENOENT" -> "continue"
      [] OTHER           -> "Err_read"

\* The match of next_request that takes ENOENT for the end of the session.
next_request_read_enoent_ends(read) ==
    CASE read = "frame"  -> "Some"
      [] read = "short"  -> "Err_InvalidData"
      [] read = "ENODEV" -> "None"
      [] read = "ENOENT" -> "None"
      [] OTHER           -> "Err_read"

\* The match of next_request without the check of the length read.
next_request_read_unchecked(read) ==
    CASE read = "frame"  -> "Some"
      [] read = "short"  -> "Some"
      [] read = "ENODEV" -> "None"
      [] read = "ENOENT" -> "continue"
      [] OTHER           -> "Err_read"

\* The match on the result of read_vectored in next_request: what the call
\* returns, or "continue" for another turn of its loop.
next_request_read(read) ==
    CASE read = "frame"  -> "Some"
      [] read = "short"  -> "Err_InvalidData"
      [] read = "ENODEV" -> "None"
      [] read = "ENOENT" -> "continue"
      [] OTHER           -> "Err_read"

\* next_request: the buffers are allocated and the read loop is entered.
\* reading is 0 when no call is in the loop, else the turn the call is in.
NextRequestCall ==
    /\ reading = 0
    /\ reading' = 1
    /\ UNCHANGED << lowVars, initVars, sessVars, chanVars, pend, reqs, ret >>

\* next_request: one read_vectored with a result of K, and what follows.
NextRequestRead(S, R, K) ==
    /\ reading >= 1
    /\ \E k \in K :
        LET val == next_request_read(k)
        IN  CASE val = "continue" ->
                   /\ reading < MaxReads
                   /\ reading' = reading + 1
                   /\ UNCHANGED << reqs, ret >>
              [] val = "Some" ->
                   /\ \E i \in S, r \in R :
                        /\ reqs[i] = NoReq
                        /\ reqs' = [ reqs EXCEPT ![i] = r ]
                        /\ ret' = [ op |-> "next_request", val |-> "Some",
                                    unique |-> r.unique, frames |-> 0 ]
                   /\ reading' = 0
              [] OTHER ->
                   /\ reading' = 0
                   /\ ret' = [ op |-> "next_request", val |-> val,
                               unique |-> 0, frames |-> 0 ]
                   /\ UNCHANGED reqs
    /\ UNCHANGED << lowVars, initVars, sessVars, chanVars, pend >>

\* next_request: read_vectored returns a frame of at least a header.
NextRequestFrame(S, R) == NextRequestRead(S, R, { "frame" })

\* next_request: read_vectored returns fewer bytes than a header.
NextRequestShort(S, R) == NextRequestRead(S, R, { "short" })

\* next_request: read_vectored fails with an errno of E.
NextRequestError(S, R, E) == NextRequestRead(S, R, E)

\* Request::operation without the check of the exited flag.
Request_operation_decodes(is_exited, req) ==
    IF req.opcode = "FUSE_WRITE" /\ req.arglen = "short"
    THEN "panic" ELSE "Decoded"

\* Request::operation: Unknown on an exited session; else the argument of a
\* WRITE is split at size_of(fuse_write_in), which panics when it is shorter,
\* and the parts are handed to Operation::decode.
Request_operation(is_exited, req) ==
    IF is_exited THEN "Unknown"
    ELSE IF req.opcode = "FUSE_WRITE" /\ req.arglen = "short"
    THEN "panic" ELSE "Decoded"

\* Request::operation
RequestOperation(S) ==
    \E i \in S :
        /\ reqs[i] # NoReq
        /\ ret' = [ op |-> "operation",
                    val |-> Request_operation(Session_exited, reqs[i]),
                    unique |-> 0, frames |-> 0 ]
        /\ UNCHANGED << lowVars, initVars, sessVars, chanVars, pend, reqs, reading >>

\* The data handed to Request::reply: a number of bytes, or byte segments.
ReplyData ==
    { [ t |-> "bytes", n |-> 14 ],
      [ t |-> "segments", segs |-> << >> ],
      [ t |-> "segments", segs |-> << << 1, 2 >>, << 3 >> >> ] }
ReplyCodes == { 2, 38 }

\* Request::reply that frames with the id 0.
Request_reply_no_unique(req, data) == ReplySender_reply(0, data)

\* What Request::reply writes.
Request_reply(req, data) == ReplySender_reply(req.unique, data)

\* What Request::reply_error writes.
Request_reply_error(req, code) == ReplySender_error(req.unique, code)

\* Request::reply
RequestReply(S, D) ==
    \E i \in S, d \in D, wok \in BOOLEAN :
        /\ reqs[i] # NoReq
        /\ IF wok
           THEN /\ writer' = << Request_reply(reqs[i], d) >>
                /\ ret' = [ op |-> "reply", val |-> "Ok",
                            unique |-> 0, frames |-> 1 ]
           ELSE /\ ret' = [ op |-> "reply", val |-> "Err_write",
                            unique |-> 0, frames |-> 0 ]
                /\ UNCHANGED writer
        /\ UNCHANGED << lowVars, initVars, sessVars, nwritten, pend, reqs, reading >>

\* Request::reply_error
RequestReplyError(S, E) ==
    \E i \in S, code \in E, wok \in BOOLEAN :
        /\ reqs[i] # NoReq
        /\ IF wok
           THEN /\ writer' = << Request_reply_error(reqs[i], code) >>
                /\ ret' = [ op |-> "reply_error", val |-> "Ok",
                            unique |-> 0, frames |-> 1 ]
           ELSE /\ ret' = [ op |-> "reply_error", val |-> "Err_write",
                            unique |-> 0, frames |-> 0 ]
                /\ UNCHANGED writer
        /\ UNCHANGED << lowVars, initVars, sessVars, nwritten, pend, reqs, reading >>

\* The Request is dropped.
RequestDrop(S) ==
    \E i \in S :
        /\ reqs[i] # NoReq
        /\ reqs' = [ reqs EXCEPT ![i] = NoReq ]
        /\ UNCHANGED << lowVars, initVars, sessVars, chanVars, pend, reading, ret >>

\* The session used by one task that notifies and one request at a time.
OneTask == { "a" }
OneSlot == { 1 }
OneCalls == NotifyCallsOf(OneDataSegments)
SomeRequests ==
    { [ opcode |-> "FUSE_GETATTR", unique |-> 4, arglen |-> "full" ],
      [ opcode |-> "FUSE_WRITE", unique |-> 6, arglen |-> "short" ] }

Next ==
    \/ Exit
    \/ NotifyCheck(OneTask, OneCalls)
    \/ NotifyFetchAdd(OneTask)
    \/ NotifyWrite(OneTask)
    \/ NextRequestCall
    \/ NextRequestFrame(OneSlot, SomeRequests)
    \/ NextRequestShort(OneSlot, SomeRequests)
    \/ NextRequestError(OneSlot, SomeRequests, ReadErrors)
    \/ RequestOperation(OneSlot)
    \/ RequestReply(OneSlot, { [ t |-> "bytes", n |-> 14 ] })
    \/ RequestReplyError(OneSlot, { 38 })
    \/ RequestDrop(OneSlot)

Spec == InitSession /\ [][Next]_vars

\* The session used by two tasks that notify.
NextNotify ==
    \/ Exit
    \/ NotifyCheck(Tasks, NotifyCalls)
    \/ NotifyFetchAdd(Tasks)
    \/ NotifyWrite(Tasks)

SpecNotify == InitSession /\ [][NextNotify]_vars

\* The session with two requests at a time.
NextRequest ==
    \/ Exit
    \/ NextRequestCall
    \/ NextRequestFrame(Slots, KernelRequests)
    \/ NextRequestShort(Slots, KernelRequests)
    \/ NextRequestError(Slots, KernelRequests, ReadErrors)
    \/ RequestOperation(Slots)
    \/ RequestReply(Slots, ReplyData)
    \/ RequestReplyError(Slots, ReplyCodes)
    \/ RequestDrop(Slots)

SpecRequest == InitSession /\ [][NextRequest]_vars

\* ------------------------------------------------------------------------
\* Claims about the exited flag of an established Session
\* ------------------------------------------------------------------------

\* A step in which a frame goes out on the kernel channel.
FrameWritten ==
    \/ writer' # writer
    \/ ret' # ret /\ ret'.frames = 1

\* C8: once the exited flag is set, no step writes a frame to the kernel
\* channel, whether it belongs to a notify_* call, to Request::reply, to
\* Request::reply_error or to the processing of a request.
C8_NoFrameOnceExited ==
    [][ (exited \/ state.exited) => ~FrameWritten ]_vars

\* C9: the exited flag never goes back from true to false, whichever of
\* exit, notify_*, next_request, Request::operation, reply, reply_error and
\* the processing of a request (DESTROY included) takes a step.
C9_ExitedIsMonotonic ==
    [][ /\ exited => exited'
        /\ state.exited => state'.exited ]_vars

\* C9: a caller has seen the flag set (Request::operation answered Unknown)
\* and the flag is still set.
C9_Witness ==
    /\ exited
    /\ ret.op = "operation"
    /\ ret.val = "Unknown"
    /\ reqs[1] # NoReq

\* C10: a notify_* call made once exit() has run returns NotConnected, gets
\* no further than ensure_session_is_alived and leaves the writer untouched.
C10_NotifyAfterExitFails ==
    [][ (exited /\ NotifyCheck(Tasks, NotifyCalls))
          => /\ ret'.val = "NotConnected"
             /\ ret'.frames = 0
             /\ pend' = pend
             /\ writer' = writer
             /\ notify_unique' = notify_unique ]_vars

\* C10: notify_retrieve has been refused on an exited session.
C10_Witness ==
    /\ exited
    /\ ret.op = "notify_retrieve"
    /\ ret.val = "NotConnected"
    /\ ret.frames = 0

\* The ids that notify_retrieve calls hold or have just returned.
RetrieveHeld(p, r) ==
    { p[t].unique : t \in { x \in Tasks : p[x].stage = "fetched" } }
    \cup ( IF r.op = "notify_retrieve" /\ r.val = "Ok" THEN { r.unique } ELSE {} )

\* C11: the ids notify_retrieve takes from notify_unique start at 0 and
\* grow with every call: each fetch hands out the value of the counter
\* (0 in a new session), which is larger than the id of every call still
\* under way and of the call that returned last, also when two calls run
\* at once; every id in use lies below the counter.
C11_RetrieveIdsAreFresh ==
    [][ \A t \in Tasks :
          ( pend[t].stage = "alive" /\ pend'[t].stage = "fetched" )
            => /\ pend'[t].unique = notify_unique
               /\ notify_unique' > notify_unique
               /\ \A u \in RetrieveHeld(pend, ret) : u < pend'[t].unique
               /\ \A u \in RetrieveHeld(pend', ret') :
                    0 <= u /\ u < notify_unique' ]_vars

\* C11: two notify_retrieve calls are under way at once, the first holding
\* id 0 and the second a different id.
C11_Witness ==
    /\ pend["a"].stage = "fetched"
    /\ pend["b"].stage = "fetched"
    /\ pend["a"].unique = 0
    /\ pend["b"].unique # pend["a"].unique

\* C12: every reply frame carries the unique of the request it answers:
\* the frame Request::reply or Request::reply_error writes for a Request,
\* the frame written while a call of Session::process handles its request,
\* and the frame a turn of the handshake writes for the header it has read,
\* whatever other requests are being handled at the same time.
C12_ReplyEchoesUnique ==
    [][ /\ \A i \in Slots :
             ( /\ reqs[i] # NoReq
               /\ ret'.frames = 1
               /\ \/ RequestReply({ i }, ReplyData)
                  \/ RequestReplyError({ i }, ReplyCodes) )
               => ( Len(writer') = 1 /\ writer'[1].unique = reqs[i].unique )
        /\ \A i \in Slots :
             procs'[i].nreplies > procs[i].nreplies
               => ( Len(writer') = 1 /\ writer'[1].unique = procs[i].unique )
        /\ nwritten' > nwritten
             => LastFrame(writer').unique = header'.unique ]_vars

\* C12: two Requests with different ids are held at once and the one read
\* first has just been answered.
C12_Witness ==
    /\ reqs[1].unique = 6
    /\ reqs[2].unique = 4
    /\ ret.op \in { "reply", "reply_error" }
    /\ ret.frames = 1
    /\ writer[1].unique = 6

\* ------------------------------------------------------------------------
\* Session::process and the interrupt bookkeeping (src/session.rs)
\* ------------------------------------------------------------------------

\* The requests process is called with: a GETATTR of either id, the other
\* kinds with the first id. An INTERRUPT has an id of its own and names its
\* target; a WRITE comes with its data or with None.
LowRequests ==
    { [ kind |-> "Getattr", unique |-> u, target |-> 0, data |-> FALSE ]
        : u \in LowUniques }
    \cup { [ kind |-> k, unique |-> 42, target |-> 0, data |-> FALSE ]
           : k \in { "Init", "Destroy", "Forget", "Unknown" } }
    \cup { [ kind |-> "Write", unique |-> 42, target |-> 0, data |-> d ]
           : d \in BOOLEAN }
    \cup { [ kind |-> "Interrupt", unique |-> 43, target |-> u, data |-> FALSE ]
           : u \in LowUniques }

I32_MIN == (-2147483647) - 1

\* -error on an i32: for i32::MIN the negation overflows, so a build with
\* overflow checks panics and one without wraps back to i32::MIN.
neg_i32(error) ==
    IF error = I32_MIN
    THEN { [ panic |-> TRUE, value |-> 0 ], [ panic |-> FALSE, value |-> I32_MIN ] }
    ELSE { [ panic |-> FALSE, value |-> -error ] }

\* send_reply that leaves the data out of len.
send_reply_header_len(unique, error, payload) ==
    { [ panic |-> n.panic,
        frame |-> [ len |-> SizeOfOutHeader, error |-> n.value,
                    unique |-> unique, payload |-> payload ] ]
      : n \in neg_i32(error) }

\* send_reply that hands the header alone to its write.
send_reply_header_only(unique, error, payload) ==
    { [ panic |-> n.panic,
        frame |-> [ len |-> SizeOfOutHeader + SizeOf(payload), error |-> n.value,
                    unique |-> unique, payload |-> NoPayload ] ]
      : n \in neg_i32(error) }

\* send_reply: the fuse_out_header with the negated error, then the data;
\* the set of its outcomes, a panic or the frame handed to the writer.
send_reply(unique, error, payload) ==
    { [ panic |-> n.panic,
        frame |-> [ len |-> SizeOfOutHeader + SizeOf(payload), error |-> n.value,
                    unique |-> unique, payload |-> payload ] ]
      : n \in neg_i32(error) }

\* What is on the channel when the write has taken only a part of a frame.
Truncated(frame) == [ frame EXCEPT !.payload = [ t |-> "truncated" ] ]

\* poll_write_vectored takes the whole frame, a part of it, or fails.
WriteResults == { "ok", "short", "err" }

\* send_reply(..).await: what the writer holds and what the caller gets for
\* an outcome o of send_reply and a result w of the write.  The number of
\* bytes the write reports is dropped, so a short write returns Ok.
SendReplyDone(o, w) ==
    [ panic  |-> o.panic,
      wrote  |-> ~o.panic /\ w # "err",
      frame  |-> IF w = "short" THEN Truncated(o.frame) ELSE o.frame,
      ret    |-> IF w = "err" THEN "Err" ELSE "Ok" ]

\* Context::reply_err that answers EIO whatever the code.
Context_reply_err_eio(unique, error) == send_reply(unique, EIO, NoPayload)

\* Context::reply_err
Context_reply_err(unique, error) == send_reply(unique, error, NoPayload)

\* Session::interrupt that leaves the Sender in the map.
interrupt_remains_kept(remains, unique) == remains

\* Session::interrupt: remains.remove(&unique)
interrupt_remains(remains, unique) == [ remains EXCEPT ![unique] = NoSender ]

\* Session::process is called with a request:
\* if self.state.lock().await.exited { return Ok(()) }
ProcessCall(R) ==
    \E i \in Slots, r \in R :
        /\ procs[i] = NoProc
        /\ procs' = [ procs EXCEPT ![i] =
                        [ NoProc EXCEPT !.kind = r.kind, !.unique = r.unique,
                                        !.target = r.target, !.data = r.data,
                                        !.arg = IF "arg" \in DOMAIN r
                                                THEN r.arg ELSE NoArg,
                                        !.pc = IF state.exited THEN "returned"
                                                               ELSE "check",
                                        !.ret = IF state.exited THEN "Ok"
                                                                ELSE "none" ] ]
        /\ UNCHANGED << initVars, sessVars, chanVars, userVars, state >>

\* process: if state.interrupted.remove(&header.unique) { return Ok(()) }
ProcessInterruptedCheck ==
    \E i \in Slots :
        /\ procs[i].pc = "check"
        /\ IF procs[i].unique \in state.interrupted
           THEN /\ state' = [ state EXCEPT !.interrupted = @ \ { procs[i].unique } ]
                /\ procs' = [ procs EXCEPT ![i].pc = "returned", ![i].ret = "Ok" ]
           ELSE /\ procs' = [ procs EXCEPT ![i].pc = "dispatch" ]
                /\ UNCHANGED state
        /\ UNCHANGED << initVars, sessVars, chanVars, userVars >>

\* process, Init and Unknown: cx.reply_err(EIO) and cx.reply_err(ENOSYS).
ProcessReplyErr(W) ==
    \E i \in Slots, w \in W :
        /\ procs[i].pc = "dispatch"
        /\ procs[i].kind \in { "Init", "Unknown" }
        /\ \E o \in Context_reply_err(procs[i].unique,
                      IF procs[i].kind = "Init" THEN EIO ELSE ENOSYS) :
             LET d == SendReplyDone(o, w)
             IN  /\ writer' = IF d.wrote THEN << d.frame >> ELSE writer
                 /\ procs' = [ procs EXCEPT ![i] =
                                 IF d.panic
                                 THEN [ @ EXCEPT !.pc = "panic" ]
                                 ELSE [ @ EXCEPT !.pc = "returned", !.ret = d.ret,
                                          !.nreplies = IF d.wrote THEN @ + 1 ELSE @ ] ]
        /\ UNCHANGED << initVars, sessVars, nwritten, userVars, state >>

\* process, Destroy: self.state.lock().await.exited = true
ProcessDestroy ==
    \E i \in Slots :
        /\ procs[i].pc = "dispatch"
        /\ procs[i].kind = "Destroy"
        /\ state' = [ state EXCEPT !.exited = TRUE ]
        /\ procs' = [ procs EXCEPT ![i].pc = "destroy_reply" ]
        /\ UNCHANGED << initVars, sessVars, chanVars, userVars >>

\* process, Destroy: cx.send_reply(0, &[])
ProcessDestroyReply(W) ==
    \E i \in Slots, w \in W :
        /\ procs[i].pc = "destroy_reply"
        /\ \E o \in send_reply(procs[i].unique, 0, NoPayload) :
             LET d == SendReplyDone(o, w)
             IN  /\ writer' = IF d.wrote THEN << d.frame >> ELSE writer
                 /\ procs' = [ procs EXCEPT ![i] =
                                 IF d.panic
                                 THEN [ @ EXCEPT !.pc = "panic" ]
                                 ELSE [ @ EXCEPT !.pc = "returned", !.ret = d.ret,
                                          !.nreplies = IF d.wrote THEN @ + 1 ELSE @ ] ]
        /\ UNCHANGED << initVars, sessVars, nwritten, userVars, state >>

\* process, Interrupt: self.interrupt(arg.unique). The Sender of the target,
\* if the map holds one, is taken out and used; a request of that id whose
\* handler has not registered yet is marked as interrupted early.
ProcessInterrupt ==
    \E i \in Slots :
        /\ procs[i].pc = "dispatch"
        /\ procs[i].kind = "Interrupt"
        /\ LET u  == procs[i].target
               tx == state.remains[u]
           IN  /\ state' =
                     IF tx.tx
                     THEN [ state EXCEPT
                              !.remains = interrupt_remains(@, u),
                              !.interrupted = @ \cup { u } ]
                     ELSE state
               /\ procs' =
                     [ j \in Slots |->
                         IF j = i
                         THEN [ procs[j] EXCEPT !.pc = "returned", !.ret = "Ok" ]
                         ELSE IF tx.tx /\ tx.rx = j
                         THEN [ procs[j] EXCEPT !.sig = "sent", !.nsig = @ + 1 ]
                         ELSE IF /\ procs[j].unique = u
                                 /\ procs[j].sig = "none"
                                 /\ procs[j].kind \in { "Getattr", "Write" }
                                 /\ procs[j].pc \in { "check", "dispatch", "handler" }
                         THEN [ procs[j] EXCEPT !.early = TRUE ]
                         ELSE procs[j] ]
        /\ UNCHANGED << initVars, sessVars, chanVars, userVars >>

\* ProcessCallFs that answers a FORGET with an empty success reply.
ProcessCallFs_answers_forget ==
    \E i \in Slots :
        /\ procs[i].pc = "dispatch"
        /\ procs[i].kind \in { "Getattr", "Forget", "Write" }
        /\ procs' = [ procs EXCEPT ![i].pc =
                        IF procs[i].kind = "Write" /\ ~procs[i].data
                        THEN "panic" ELSE "handler" ]
        /\ writer' = IF procs[i].kind = "Forget"
                     THEN << ReplySender_reply(procs[i].unique, NoPayload) >>
                     ELSE writer
        /\ UNCHANGED << initVars, sessVars, nwritten, userVars, state >>

\* process, the operations handed to the filesystem: fs.call(&mut cx, op),
\* and the panic of a Write that comes without its data.
ProcessCallFs ==
    \E i \in Slots :
        /\ procs[i].pc = "dispatch"
        /\ procs[i].kind \in { "Getattr", "Forget", "Write" }
        /\ procs' = [ procs EXCEPT ![i].pc =
                        IF procs[i].kind = "Write" /\ ~procs[i].data
                        THEN "panic" ELSE "handler" ]
        /\ UNCHANGED << initVars, sessVars, chanVars, userVars, state >>

\* Interrupt::poll: the outcome of the oneshot Receiver is dropped, so the
\* future is ready once a signal was sent and also once the Sender is gone.
Interrupt_ready(sig) == sig \in { "sent", "canceled" }

\* The handler calls Context::on_interrupt: enable_interrupt inserts a new
\* Sender, which drops the one the map held for the id.
HandlerOnInterrupt ==
    \E i \in Slots :
        /\ procs[i].pc = "handler"
        /\ procs[i].sig = "none"
        /\ LET u   == procs[i].unique
               old == state.remains[u]
           IN  /\ state' = [ state EXCEPT
                               !.remains[u] = [ tx |-> TRUE, rx |-> i ] ]
               /\ procs' =
                     [ j \in Slots |->
                         IF j = i
                         THEN [ procs[j] EXCEPT !.sig = "pending" ]
                         ELSE IF old.tx /\ old.rx = j /\ procs[j].sig = "pending"
                         THEN [ procs[j] EXCEPT !.sig = "canceled" ]
                         ELSE procs[j] ]
        /\ UNCHANGED << initVars, sessVars, chanVars, userVars >>

\* The handler of an operation other than Forget sends its one reply, one
\* of K: Context::send_reply(error, data).
HandlerReply(K, W) ==
    \E i \in Slots, k \in K, w \in W :
        /\ procs[i].pc = "handler"
        /\ procs[i].kind # "Forget"
        /\ \E o \in send_reply(procs[i].unique, k.error, k.payload) :
             LET d == SendReplyDone(o, w)
             IN  /\ writer' = IF d.wrote THEN << d.frame >> ELSE writer
                 /\ procs' = [ procs EXCEPT ![i] =
                                 IF d.panic
                                 THEN [ @ EXCEPT !.pc = "panic" ]
                                 ELSE [ @ EXCEPT !.pc = "replied",
                                          !.ret = IF d.ret = "Err" THEN "Err" ELSE @,
                                          !.nreplies = IF d.wrote THEN @ + 1 ELSE @ ] ]
        /\ UNCHANGED << initVars, sessVars, nwritten, userVars, state >>

\* fs.call returns and process with it; the Interrupt the handler held is
\* dropped.
HandlerReturn ==
    \E i \in Slots :
        /\ \/ procs[i].pc = "replied"
           \/ procs[i].pc = "handler" /\ procs[i].kind = "Forget"
        /\ LET u == procs[i].unique
           IN  state' = IF state.remains[u].tx /\ state.remains[u].rx = i
                        THEN [ state EXCEPT !.remains[u].rx = 0 ]
                        ELSE state
        /\ procs' = [ procs EXCEPT ![i] =
                        [ @ EXCEPT !.pc = "returned",
                                   !.ret = IF @ = "Err" THEN "Err" ELSE "Ok",
                                   !.sig = "none", !.nsig = 0, !.early = FALSE ] ]
        /\ UNCHANGED << initVars, sessVars, chanVars, userVars >>

\* The caller of process is done with the call.
ProcessDone ==
    \E i \in Slots :
        /\ procs[i].pc \in { "returned", "panic" }
        /\ procs' = [ procs EXCEPT ![i] = NoProc ]
        /\ UNCHANGED << initVars, sessVars, chanVars, userVars, state >>

\* A session of src/session.rs right after Session::start.
InitLow ==
    /\ config = Config_default
    /\ attempt = 1
    /\ header = [ opcode |-> "FUSE_INIT", unique |-> KernelUnique(0) ]
    /\ arg = ZeroInitIn
    /\ nfields = 4
    /\ init_result = "Ok"
    /\ conn = NoConn
    /\ bufsize = BufSize(NoConn)
    /\ exited = FALSE
    /\ notify_unique = 0
    /\ writer = << >>
    /\ nwritten = 1
    /\ NoUsers
    /\ NoLow

\* The reply of the handlers of SpecLow, and the results of their writes.
OneReply == { [ error |-> 0, payload |-> [ t |-> "bytes", n |-> 14 ] ] }
WholeWrites == { "ok", "err" }

NextLow ==
    \/ ProcessCall(LowRequests)
    \/ ProcessInterruptedCheck
    \/ ProcessReplyErr(WholeWrites)
    \/ ProcessDestroy
    \/ ProcessDestroyReply(WholeWrites)
    \/ ProcessInterrupt
    \/ ProcessCallFs
    \/ HandlerOnInterrupt
    \/ HandlerReply(OneReply, WholeWrites)
    \/ HandlerReturn
    \/ ProcessDone

SpecLow == InitLow /\ [][NextLow]_vars

\* The replies the handlers of SpecReply send: data in segments, an errno,
\* and the errno i32::MIN.
ReplySegments == { << >>, << << 1, 2 >>, << 3 >> >>, << << >>, << 7 >> >> }
HandlerReplies ==
    { [ error |-> 0, payload |-> [ t |-> "segments", segs |-> g ] ]
        : g \in ReplySegments }
    \cup { [ error |-> e, payload |-> NoPayload ] : e \in { 2, I32_MIN } }

\* The requests of SpecReply.
ReplyRequests ==
    { [ kind |-> "Getattr", unique |-> u, target |-> 0, data |-> FALSE ]
        : u \in LowUniques }
    \cup { [ kind |-> k, unique |-> 42, target |-> 0, data |-> FALSE ]
           : k \in { "Destroy", "Unknown" } }

\* Session::process with handlers that reply in every way, on a transport
\* that may take a part of a frame.
NextReply ==
    \/ ProcessCall(ReplyRequests)
    \/ ProcessInterruptedCheck
    \/ ProcessReplyErr(WriteResults)
    \/ ProcessDestroy
    \/ ProcessDestroyReply(WriteResults)
    \/ ProcessCallFs
    \/ HandlerReply(HandlerReplies, WriteResults)
    \/ HandlerReturn
    \/ ProcessDone

SpecReply == InitLow /\ [][NextReply]_vars

\* ------------------------------------------------------------------------
\* Claims about Session::process and interrupts
\* ------------------------------------------------------------------------

\* C4: a call of process that returns Ok for a request other than FORGET and
\* INTERRUPT has written exactly one reply frame for that request, in
\* whatever state the session was and whatever requests came before.
C4_OneReplyPerRequest ==
    \A i \in Slots :
        ( /\ procs[i].pc = "returned"
          /\ procs[i].ret = "Ok"
          /\ procs[i].kind \notin { "Forget", "Interrupt" } )
            => procs[i].nreplies = 1

\* C5: a handler that registers with on_interrupt after an INTERRUPT of its
\* request has been processed gets a signal that is already set.
C5_EarlyInterruptIsRemembered ==
    \A i \in Slots :
        ( procs[i].early /\ procs[i].sig # "none" ) => procs[i].sig # "pending"

\* An INTERRUPT naming the id u is processed in this step.
InterruptProcessed(u) ==
    \E j \in Slots :
        /\ procs[j].kind = "Interrupt"
        /\ procs[j].target = u
        /\ procs[j].pc = "dispatch"
        /\ procs'[j].pc = "returned"

\* C6: when the handler of request u has registered and has not completed,
\* processing INTERRUPT{u} makes its signal ready, and no handler is ever
\* sent a second signal, however many INTERRUPT{u} follow.
C6_InterruptFiresOnce ==
    [][ \A i \in Slots :
          /\ ( /\ procs[i].sig = "pending"
               /\ procs[i].pc \in { "handler", "replied" }
               /\ InterruptProcessed(procs[i].unique) )
               => ( procs'[i].sig = "sent" /\ procs'[i].nsig = 1 )
          /\ procs'[i].nsig <= 1 ]_vars

\* C6: the signal of a registered handler has been sent once, the handler
\* has not completed, and another INTERRUPT of the same id is about to be
\* processed.
C6_Witness ==
    \E i, j \in Slots :
        /\ procs[i].pc = "handler"
        /\ procs[i].sig = "sent"
        /\ procs[i].nsig = 1
        /\ procs[j].kind = "Interrupt"
        /\ procs[j].target = procs[i].unique
        /\ procs[j].pc = "dispatch"
        /\ ~state.remains[procs[i].unique].tx

\* C7: process never returns at its check of the interrupted set: a request
\* whose id is recorded there is dispatched like any other.
C7_InterruptedRequestIsDispatched ==
    [][ \A i \in Slots :
          procs[i].pc = "check" => procs'[i].pc # "returned" ]_vars

\* ------------------------------------------------------------------------
\* Claims about the frames of replies
\* ------------------------------------------------------------------------

\* The frame of a success reply to the request id unique with the segments
\* segs: a header of 16 bytes with len = 16 + the sum of the lengths of the
\* segments and error = 0, then the segments in their order.
SuccessFrame(unique, segs) ==
    [ len |-> 16 + SumLen(segs), error |-> 0, unique |-> unique,
      payload |-> [ t |-> "segments", segs |-> segs ] ]

\* C13: a success reply with a list of segments, written to a transport
\* that takes the whole of it, puts exactly the one frame SuccessFrame on
\* the channel, from Context::send_reply as from Request::reply.
C13_SuccessReplyIsOneFrame ==
    [][ /\ \A i \in Slots, k \in HandlerReplies :
             ( /\ k.error = 0
               /\ procs[i].pc = "handler"
               /\ procs'[i] # procs[i]
               /\ HandlerReply({ k }, { "ok" }) )
               => writer' = << SuccessFrame(procs[i].unique, k.payload.segs) >>
        /\ \A i \in Slots, d \in ReplyData :
             ( /\ d.t = "segments"
               /\ reqs[i] # NoReq
               /\ ret'.frames = 1
               /\ RequestReply({ i }, { d }) )
               => writer' = << SuccessFrame(reqs[i].unique, d.segs) >> ]_vars

\* C13: a handler has replied with two segments of three bytes in all, and
\* the frame on the channel has len = 19.
C13_Witness ==
    /\ Len(writer) = 1
    /\ writer[1].payload.t = "segments"
    /\ Len(writer[1].payload.segs) = 2
    /\ writer[1].len = 19
    /\ \E i \in Slots :
         /\ procs[i].pc = "replied"
         /\ procs[i].nreplies = 1
         /\ procs[i].unique = writer[1].unique

\* -e kept within the i32 range.
ClampedNeg(e) == IF e = I32_MIN THEN 2147483647 ELSE -e

\* C14: an error reply for the errno e, written to a transport that takes
\* the whole of it, is the frame with len = 16, no body and error = -e kept
\* within the i32 range, and the call does not panic, for every e, i32::MIN
\* included.
C14_ErrorReplyNegatesClamped ==
    [][ \A i \in Slots, k \in HandlerReplies :
          ( /\ k.payload = NoPayload
            /\ procs[i].pc = "handler"
            /\ procs'[i] # procs[i]
            /\ HandlerReply({ k }, { "ok" }) )
            => /\ procs'[i].pc # "panic"
               /\ writer' = << [ len |-> 16, error |-> ClampedNeg(k.error),
                                 unique |-> procs[i].unique,
                                 payload |-> NoPayload ] >> ]_vars

\* C15: when the write takes only a part of the frame, the call that sent
\* the reply gets an error: a step that leaves a truncated frame on the
\* channel gives Err to the call of process it belongs to.
C15_ShortWriteIsAnError ==
    [][ \A i \in Slots :
          ( /\ procs'[i] # procs[i]
            /\ writer' # writer
            /\ Len(writer') = 1
            /\ writer'[1].payload.t = "truncated" )
            => procs'[i].ret = "Err" ]_vars

\* C16: frames of tasks that write at the same time are not interleaved:
\* a step that writes belongs to no more than one call of process or of
\* notify_*, and what it puts on the channel is one unit holding the header
\* of a frame and all of its segments.
C16_FramesAreWrittenWhole ==
    [][ writer' # writer
          => /\ Len(writer') = 1
             /\ writer'[1].len = SizeOfOutHeader + SizeOf(writer'[1].payload)
             /\ Cardinality({ i \in Slots : procs'[i] # procs[i] })
                  + Cardinality({ t \in Tasks : pend'[t] # pend[t] }) <= 1 ]_vars

\* C16: two calls of process handle requests of different ids at the same
\* time; one has written its reply and the other has not yet.
C16_Witness ==
    /\ procs[1].pc = "replied"
    /\ procs[2].pc = "handler"
    /\ procs[1].unique # procs[2].unique
    /\ Len(writer) = 1
    /\ writer[1].unique = procs[1].unique
    /\ writer[1].len = 30


\* ------------------------------------------------------------------------
\* Session::start of src/session.rs: the handshake of the driver of process
\* ------------------------------------------------------------------------

\* The loop of Session::start has no bound of its own; the frames the kernel
\* sends before it gives up on the handshake are bounded here.
MaxFrames == 11

\* The fuse_init_out of the reply to an accepted INIT.
StartInitOut(init_in) ==
    [ InitOutDefault EXCEPT !.max_readahead = init_in.max_readahead,
                            !.max_write = MAX_WRITE_SIZE ]

\* One turn of the loop on a decoded request: the reply it sends and how the
\* turn ends ("continue", or what start returns).
start_turn(hdr, init_in) ==
    IF hdr.opcode = "FUSE_INIT"
    THEN IF init_in.major > 7
         THEN [ error |-> 0, payload |-> InitOutDefault, ret |-> "continue" ]
         ELSE IF init_in.major < 7 \/ (init_in.major = 7 /\ init_in.minor < 6)
         THEN [ error |-> EPROTO, payload |-> NoPayload, ret |-> "Err_EPROTO" ]
         ELSE [ error |-> 0, payload |-> StartInitOut(init_in), ret |-> "Ok" ]
    ELSE [ error |-> EIO, payload |-> NoPayload, ret |-> "continue" ]

\* buf.receive(io).await? fails.
StartReceiveError ==
    /\ init_result = "running"
    /\ attempt < MaxFrames
    /\ attempt' = attempt + 1
    /\ init_result' = "Err_read"
    /\ UNCHANGED << config, header, arg, nfields, sessVars, chanVars, userVars,
                    lowVars >>

\* buf.receive reports that the connection is closed: ENODEV.
StartTerminated ==
    /\ init_result = "running"
    /\ attempt < MaxFrames
    /\ attempt' = attempt + 1
    /\ init_result' = "Err_ENODEV"
    /\ UNCHANGED << config, header, arg, nfields, sessVars, chanVars, userVars,
                    lowVars >>

\* buf.decode()? fails on the frame received.
StartDecodeError ==
    /\ init_result = "running"
    /\ attempt < MaxFrames
    /\ attempt' = attempt + 1
    /\ init_result' = "Err_decode"
    /\ UNCHANGED << config, header, arg, nfields, sessVars, chanVars, userVars,
                    lowVars >>

\* One turn of the loop on a frame that decodes: the reply, and the Session
\* (proto_major, proto_minor, max_readahead) when the INIT is accepted.
StartFrame(W) ==
    /\ init_result = "running"
    /\ attempt < MaxFrames
    /\ \E op \in Opcodes, in \in KernelOffers, w \in W :
        LET hdr == [ opcode |-> op, unique |-> KernelUnique(attempt) ]
            t   == start_turn(hdr, in)
        IN  /\ header' = hdr
            /\ arg' = IF op = "FUSE_INIT" THEN in ELSE arg
            /\ nfields' = IF op = "FUSE_INIT" THEN 4 ELSE 0
            /\ attempt' = attempt + 1
            /\ \E o \in send_reply(hdr.unique, t.error, t.payload) :
                LET d == SendReplyDone(o, w)
                IN  IF d.panic
                    THEN /\ init_result' = "panic"
                         /\ UNCHANGED << sessVars, chanVars >>
                    ELSE IF d.ret = "Err"
                    THEN /\ init_result' = "Err_write"
                         /\ UNCHANGED << sessVars, chanVars >>
                    ELSE /\ writer' = Push(writer, d.frame)
                         /\ nwritten' = nwritten + 1
                         /\ init_result' =
                              IF t.ret = "continue" THEN "running" ELSE t.ret
                         /\ IF t.ret = "Ok"
                            THEN /\ conn' = [ NoConn EXCEPT
                                                !.major = in.major,
                                                !.minor = in.minor,
                                                !.max_readahead = in.max_readahead ]
                                 /\ UNCHANGED << bufsize, exited, notify_unique >>
                            ELSE UNCHANGED sessVars
    /\ UNCHANGED << config, userVars, lowVars >>

NextStart ==
    \/ StartReceiveError
    \/ StartTerminated
    \/ StartDecodeError
    \/ StartFrame(WriteResults)

SpecStart == InitHandshake /\ [][NextStart]_vars

\* ------------------------------------------------------------------------
\* Claims about the loop of the handshake
\* ------------------------------------------------------------------------

\* C17: Session::start reads at most 10 frames: a session is returned as soon
\* as a frame completes the handshake, and when none of the first ten frames
\* does, start has returned an error and no eleventh frame is read.
C17_AtMostTenFrames ==
    /\ attempt <= 10
    /\ attempt = 10 => init_result # "running"
    /\ (init_result = "Ok" /\ nwritten > 0) => LastFrame(writer).error = 0


InitAccepted ==
    /\ TurnDone
    /\ header'.opcode = "FUSE_INIT"
    /\ init_result' = "Ok"

\* C19: the flags of the INIT reply are (Config.flags AND the kernel's flags)
\* OR BIG_WRITES, with MAX_PAGES exactly when the kernel offered it; no other
\* bit is sent: apart from BIG_WRITES nothing the kernel did not offer, and
\* neither NO_OPEN_SUPPORT nor NO_OPENDIR_SUPPORT.
C19_ReplyFlagsAreNegotiated ==
    [][ InitAccepted
        => LET sent == LastFrame(writer').payload.flags
           IN  /\ nwritten' = nwritten + 1
               /\ sent = ((config.flags \cap arg'.flags) \cup { "BIG_WRITES" })
                           \cup (arg'.flags \cap { "MAX_PAGES" })
               /\ sent \subseteq arg'.flags \cup { "BIG_WRITES" }
               /\ sent \cap { "NO_OPEN_SUPPORT", "NO_OPENDIR_SUPPORT" } = {} ]_vars

\* C19: a session was returned to a kernel that offered NO_OPEN_SUPPORT and
\* no MAX_PAGES, with a Config asking for bits the kernel did not offer.
C19_Witness ==
    /\ init_result = "Ok"
    /\ nwritten > 0
    /\ "NO_OPEN_SUPPORT" \in arg.flags
    /\ "MAX_PAGES" \notin arg.flags
    /\ config.flags \ arg.flags # {}
    /\ "NO_OPEN_SUPPORT" \in conn.flags
    /\ LastFrame(writer).payload.flags = { "ASYNC_READ", "BIG_WRITES" }


\* ceil(max_write / pagesize) capped at 65535, on the u32 max_write: 2^32 is
\* a multiple of the page size, so the remainder of the bit pattern is the
\* remainder of the number.
CeilPages(max_write) ==
    UMin(UDiv(max_write, PageSize)
           + (IF max_write % PageSize = 0 THEN 0 ELSE 1), U16_MAX)

\* C20: when the kernel offers MAX_PAGES, the max_pages of the INIT reply is
\* min(ceil(max_write / pagesize), 65535) for every max_write of Config,
\* 0 and the values that are no multiple of the page size included.
C20_MaxPagesIsCeiling ==
    [][ ( InitAccepted /\ "MAX_PAGES" \in arg'.flags )
        => LastFrame(writer').payload.max_pages = CeilPages(config.max_write) ]_vars


\* ------------------------------------------------------------------------
\* Claims about the ConnectionInfo of the session
\* ------------------------------------------------------------------------

\* What the accessors of ConnectionInfo other than flags() return, against
\* the fuse_init_out that was sent and the flags of the kernel's INIT.
ConnectionInfoReports(c, sent, kflags) ==
    /\ ConnectionInfo_no_open_support(c) = ("NO_OPEN_SUPPORT" \in kflags)
    /\ ConnectionInfo_no_opendir_support(c) = ("NO_OPENDIR_SUPPORT" \in kflags)
    /\ sent.flags \cap { "NO_OPEN_SUPPORT", "NO_OPENDIR_SUPPORT" } = {}
    /\ c.major = sent.major
    /\ c.minor = sent.minor
    /\ c.max_readahead = sent.max_readahead
    /\ c.max_write = sent.max_write
    /\ c.time_gran = sent.time_gran
    /\ ConnectionInfo_max_pages(c) =
         [ some |-> "MAX_PAGES" \in sent.flags, pages |-> sent.max_pages ]

\* C21 as stated: after a successful INIT the ConnectionInfo reports
\* no_open_support and no_opendir_support exactly when the kernel set the bit
\* (the reply does not carry them), and every other accessor, flags()
\* included, returns the value sent in the reply.
C21_ConnectionInfoIsTheReply ==
    [][ ( InitAccepted /\ nfields' = 4 )
        => /\ ConnectionInfoReports(conn', LastFrame(writer').payload, arg'.flags)
           /\ ConnectionInfo_flags(conn') = LastFrame(writer').payload.flags ]_vars

\* C21 as amended: the same, but flags() returns the bits of the flags sent
\* that CapabilityFlags names, so neither BIG_WRITES nor MAX_PAGES.
C21_ConnectionInfoIsTheReplyTruncated ==
    [][ ( InitAccepted /\ nfields' = 4 )
        => /\ ConnectionInfoReports(conn', LastFrame(writer').payload, arg'.flags)
           /\ ConnectionInfo_flags(conn')
                = LastFrame(writer').payload.flags \ { "BIG_WRITES", "MAX_PAGES" } ]_vars

\* C21: a session whose kernel set NO_OPEN_SUPPORT and not NO_OPENDIR_SUPPORT.
C21_Witness ==
    /\ init_result = "Ok"
    /\ nwritten > 0
    /\ nfields = 4
    /\ ConnectionInfo_no_open_support(conn)
    /\ ~ConnectionInfo_no_opendir_support(conn)
    /\ "NO_OPEN_SUPPORT" \notin LastFrame(writer).payload.flags


\* ------------------------------------------------------------------------
\* The handshake followed by the intake of requests (init, next_request)
\* ------------------------------------------------------------------------

\* The requests the kernel sends in this run: those of SomeRequests and a
\* DESTROY.
DestroyRequest == [ opcode |-> "FUSE_DESTROY", unique |-> 8, arglen |-> "full" ]
IntakeRequests == SomeRequests \cup { DestroyRequest }

\* The dispatch of a DESTROY that next_request has yielded, by the task
\* that calls next_request, between two of its calls: exited is set and an
\* empty success reply is sent.
DispatchDestroy(S) ==
    \E i \in S, wok \in BOOLEAN :
        /\ reading = 0
        /\ reqs[i].opcode = "FUSE_DESTROY"
        /\ ~Session_exited
        /\ exited' = exit
        /\ IF wok
           THEN /\ writer' = << Request_reply(reqs[i], NoPayload) >>
                /\ ret' = [ op |-> "reply", val |-> "Ok",
                            unique |-> 0, frames |-> 1 ]
           ELSE /\ ret' = [ op |-> "reply", val |-> "Err_write",
                            unique |-> 0, frames |-> 0 ]
                /\ UNCHANGED writer
        /\ UNCHANGED << lowVars, initVars, conn, bufsize, notify_unique,
                        nwritten, pend, reqs, reading >>

NextIntake ==
    \/ InitReadError
    \/ InitShortRead
    \/ InitFrame
    \/ (init_result = "Ok" /\ Exit)
    \/ (init_result = "Ok" /\ NextRequestCall)
    \/ (init_result = "Ok" /\ NextRequestFrame(OneSlot, IntakeRequests))
    \/ (init_result = "Ok" /\ NextRequestShort(OneSlot, IntakeRequests))
    \/ (init_result = "Ok" /\ NextRequestError(OneSlot, IntakeRequests, ReadErrors))
    \/ (init_result = "Ok" /\ DispatchDestroy(OneSlot))
    \/ (init_result = "Ok" /\ RequestDrop(OneSlot))

SpecIntake == InitHandshake /\ [][NextIntake]_vars

\* ------------------------------------------------------------------------
\* Claims about the reads of next_request
\* ------------------------------------------------------------------------

NextRequestReturned(val) ==
    /\ reading' = 0
    /\ ret' = [ op |-> "next_request", val |-> val, unique |-> 0, frames |-> 0 ]

\* C22: when the read reports ENODEV, next_request returns Ok(None): no
\* Request is yielded, no error is returned and nothing is written.
C22_EnodevEndsTheSession ==
    [][ NextRequestError(OneSlot, IntakeRequests, { "ENODEV" })
        => /\ NextRequestReturned("None")
           /\ reqs' = reqs
           /\ UNCHANGED chanVars ]_vars

\* C22: the first call of next_request has returned Ok(None).
C22_Witness ==
    /\ init_result = "Ok"
    /\ reading = 0
    /\ ret.op = "next_request" /\ ret.val = "None"
    /\ \A i \in Slots : reqs[i] = NoReq

\* C23: when the read reports ENOENT, next_request reads again and neither
\* yields a request nor returns; whatever the number of ENOENT results, the
\* read result that follows is answered as it is at the first read.
C23_EnoentIsRetried ==
    [][ /\ NextRequestError(OneSlot, IntakeRequests, { "ENOENT" })
          => /\ reading' = reading + 1
             /\ UNCHANGED << ret, reqs, chanVars, sessVars >>
        /\ NextRequestRead(OneSlot, IntakeRequests, { "frame" })
          => /\ reading' = 0
             /\ ret'.op = "next_request" /\ ret'.val = "Some"
             /\ \E i \in OneSlot : reqs[i] = NoReq /\ reqs'[i] \in IntakeRequests
                                     /\ ret'.unique = reqs'[i].unique
        /\ NextRequestRead(OneSlot, IntakeRequests, { "short" })
          => NextRequestReturned("Err_InvalidData") /\ reqs' = reqs
        /\ NextRequestRead(OneSlot, IntakeRequests, { "ENODEV" })
          => NextRequestReturned("None") /\ reqs' = reqs
        /\ NextRequestRead(OneSlot, IntakeRequests, { "EIO" })
          => NextRequestReturned("Err_read") /\ reqs' = reqs ]_vars

\* C23: two reads of the first call have reported ENOENT; the call has not
\* returned and no request is held.
C23_Witness ==
    /\ init_result = "Ok"
    /\ reading = 3
    /\ ret = NoRet
    /\ \A i \in Slots : reqs[i] = NoReq

\* C24: a read of fewer than 40 bytes makes next_request, and the read of
\* the handshake, fail with InvalidData; no Request is yielded and no reply
\* is written for that frame.
C24_ShortReadIsInvalidData ==
    [][ /\ NextRequestShort(OneSlot, IntakeRequests)
          => /\ NextRequestReturned("Err_InvalidData")
             /\ reqs' = reqs
             /\ UNCHANGED chanVars
        /\ InitShortRead
          => /\ init_result' = "Err_InvalidData"
             /\ UNCHANGED << chanVars, sessVars, reqs >> ]_vars

\* C24: next_request has failed with InvalidData on the session that the
\* handshake has returned.
C24_Witness ==
    /\ init_result = "Ok"
    /\ reading = 0
    /\ ret.op = "next_request" /\ ret.val = "Err_InvalidData"
    /\ \A i \in Slots : reqs[i] = NoReq
    /\ nwritten = 1


\* ------------------------------------------------------------------------
\* Claims about what is dispatched
\* ------------------------------------------------------------------------

\* C25: once exited is true nothing more is dispatched to the filesystem:
\* Request::operation on an exited session returns the Unknown operation
\* without decoding, and a call of Session::process on an exited session
\* returns without invoking a handler (and without a reply).
C25_NothingDispatchedOnceExited ==
    [][ /\ \A i \in Slots :
             ( Session_exited /\ RequestOperation({ i }) )
               => ( ret'.op = "operation" /\ ret'.val = "Unknown" )
        /\ \A i \in Slots :
             ( state.exited /\ procs[i] = NoProc /\ procs'[i] # NoProc )
               => /\ procs'[i].pc = "returned"
                  /\ procs'[i].ret = "Ok"
                  /\ procs'[i].nreplies = 0
                  /\ writer' = writer ]_vars

\* C25: operation was called on an exited session for a WRITE request whose
\* argument decoding would not have survived.
C25_Witness ==
    /\ Session_exited
    /\ ret.op = "operation" /\ ret.val = "Unknown"
    /\ \E i \in Slots : reqs[i].opcode = "FUSE_WRITE" /\ reqs[i].arglen = "short"


\* ------------------------------------------------------------------------
\* Claims about DESTROY
\* ------------------------------------------------------------------------

\* C26: when a DESTROY is processed the empty success reply is written first
\* and exited becomes true only then: in no state is exited true while the
\* reply of the DESTROY is still to be written, or was given up because its
\* write failed.
C26_DestroyRepliesBeforeExit ==
    \A i \in Slots :
        ( /\ procs[i].kind = "Destroy"
          /\ \A j \in Slots \ { i } : procs[j].kind # "Destroy"
          /\ \/ procs[i].pc = "destroy_reply"
             \/ procs[i].pc = "returned" /\ procs[i].ret = "Err" )
          => ~state.exited


\* A DESTROY has been received and answered with an empty success reply.
DestroyAnswered ==
    /\ Session_exited
    /\ Len(writer) = 1
    /\ writer[1] = [ len |-> 16, error |-> 0, unique |-> DestroyRequest.unique,
                     payload |-> NoPayload ]

\* C27: after a DESTROY has been received and answered with an empty success
\* reply, the next call of next_request returns end-of-session and yields no
\* request, also when the transport delivers another frame.
C27_IntakeEndsAfterDestroy ==
    [][ ( DestroyAnswered /\ NextRequestFrame(OneSlot, IntakeRequests) )
        => ( ret'.op = "next_request" /\ ret'.val = "None" /\ reqs' = reqs ) ]_vars


\* ------------------------------------------------------------------------
\* Claims about decoding and about the replies of process
\* ------------------------------------------------------------------------

\* C28: decoding a request never panics: whatever the opcode and the length
\* of the argument (a WRITE whose argument is shorter than fuse_write_in, a
\* WRITE handed to process without its data), it gives an operation or a
\* decode error.
C28_DecodingNeverPanics ==
    /\ ~(ret.op = "operation" /\ ret.val = "panic")
    /\ \A i \in Slots : ~(procs[i].kind = "Write" /\ procs[i].pc = "panic")


\* C29: a request with an unknown opcode, on a live session, is answered
\* with exactly one error reply, error = -ENOSYS and the unique of the
\* request (when the writer takes the frame), and exited is left as it was.
C29_UnknownOpcodeGetsEnosys ==
    [][ \A i \in Slots :
          /\ ( /\ procs[i].kind = "Unknown" /\ procs[i].pc = "dispatch"
               /\ procs'[i].pc # "dispatch" )
             => /\ state' = state
                /\ procs'[i].pc = "returned"
                /\ procs'[i].ret = "Ok"
                     => /\ procs'[i].nreplies = 1
                        /\ Len(writer') = 1
                        /\ writer'[1].payload.t # "truncated"
                             => writer'[1] =
                                  [ len |-> 16, error |-> -38,
                                    unique |-> procs[i].unique,
                                    payload |-> NoPayload ]
          /\ ( /\ procs'[i].kind = "Unknown" /\ procs'[i].pc = "returned"
               /\ procs'[i].ret = "Ok" /\ ~state'.exited )
             => procs'[i].nreplies = 1 ]_vars

\* C29: a request of unknown opcode has been answered with -ENOSYS and the
\* session is alive.
C29_Witness ==
    \E i \in Slots :
        /\ procs[i].kind = "Unknown"
        /\ procs[i].pc = "returned" /\ procs[i].ret = "Ok"
        /\ procs[i].nreplies = 1
        /\ ~state.exited
        /\ writer = << [ len |-> 16, error |-> -38, unique |-> procs[i].unique,
                         payload |-> NoPayload ] >>


\* C30: process never writes a reply frame for a FORGET or for an INTERRUPT
\* itself, in any state of the session: no step of such a call changes what
\* the writer holds, and no frame carries the id of an INTERRUPT.
C30_NoReplyToForgetOrInterrupt ==
    [][ /\ \A i \in Slots :
             ( procs[i].kind \in { "Forget", "Interrupt" } /\ procs'[i] # procs[i] )
               => ( writer' = writer /\ procs'[i].nreplies = 0 )
        /\ \A k \in DOMAIN writer' : writer'[k].unique # 43 ]_vars

\* C30: a FORGET has been through its handler and an INTERRUPT through
\* Session::interrupt; both calls have returned.
C30_Witness ==
    \E i, j \in Slots :
        /\ procs[i].kind = "Forget" /\ procs[i].pc = "returned"
        /\ procs[j].kind = "Interrupt" /\ procs[j].pc = "returned"
        /\ procs[i].nreplies = 0 /\ procs[j].nreplies = 0
        /\ ~state.exited
        /\ state.interrupted = {}


\* ------------------------------------------------------------------------
\* Claims about notifications
\* ------------------------------------------------------------------------

\* The code each notify_* call is to put into the error field.
NotifyCodeOf(op) ==
    CASE op = "notify_poll_wakeup" -> 1
      [] op = "notify_inval_inode" -> 2
      [] op = "notify_inval_entry" -> 3
      [] op = "notify_store"       -> 4
      [] op = "notify_retrieve"    -> 5
      [] op = "notify_delete"      -> 6

\* C31: every notification frame has unique = 0 and the notification code
\* as error, followed by the payload of that code; notify_inval_entry and
\* notify_delete append the name and one NUL byte, and the size field of
\* notify_store is the total length of the data segments.
C31_NotifyFrames ==
    [][ \A t \in Tasks :
          ( pend[t] # NoCall /\ pend'[t] = NoCall /\ ret'.val = "Ok" )
            => LET c == pend[t].call
                   f == writer'[1]
               IN  /\ Len(writer') = 1
                   /\ f.unique = 0
                   /\ f.error = NotifyCodeOf(c.op)
                   /\ f.len = 16 + f.payload.size
                   /\ c.op \in { "notify_inval_entry", "notify_delete" }
                        => /\ f.payload.tail = c.name \o << 0 >>
                           /\ f.payload.namelen = Len(c.name)
                           /\ f.payload.size =
                                (IF c.op = "notify_delete" THEN 24 ELSE 16)
                                  + Len(c.name) + 1
                   /\ c.op = "notify_store"
                        => /\ f.payload.datasize = SumLen(c.data)
                           /\ f.payload.tail = c.data
                           /\ f.payload.size = 24 + SumLen(c.data)
                   /\ c.op = "notify_retrieve"
                        => f.payload.notify_unique = pend[t].unique ]_vars

\* C31: a notify_store of two segments is on the channel while the other
\* task is in a call of its own.
C31_Witness ==
    /\ Len(writer) = 1
    /\ writer[1].error = 4 /\ writer[1].unique = 0
    /\ writer[1].payload.datasize = 3
    /\ writer[1].len = 16 + 24 + 3
    /\ \E t \in Tasks : pend[t] # NoCall


\* ------------------------------------------------------------------------
\* Session::process, the Release and Setlk arms (src/session.rs)
\* ------------------------------------------------------------------------

\* libc::F_RDLCK, F_WRLCK, F_UNLCK and LOCK_SH, LOCK_EX, LOCK_NB, LOCK_UN.
F_RDLCK == 0
F_WRLCK == 1
F_UNLCK == 2
LOCK_SH == 1
LOCK_EX == 2
LOCK_NB == 4
LOCK_UN == 8

\* self.proto_minor: Session::start remembers arg.minor of the INIT it
\* accepted.
Session_proto_minor == arg.minor

\* The Release arm with both flags behind the version test.
Operation_Release_gated(proto_minor, a) ==
    [ NoOp EXCEPT !.variant = "Release",
        !.flush = proto_minor >= 8 /\ "FLUSH" \in a.release_flags,
        !.flock_release = proto_minor >= 8 /\ "FLOCK_UNLOCK" \in a.release_flags,
        !.lock_owner = proto_minor >= 8 ]

\* The Release arm: flush and lock_owner are read when proto_minor >= 8;
\* the FLOCK_UNLOCK bit is tested outside of that block.
Operation_Release(proto_minor, a) ==
    [ NoOp EXCEPT !.variant = "Release",
        !.flush = proto_minor >= 8 /\ "FLUSH" \in a.release_flags,
        !.flock_release = "FLOCK_UNLOCK" \in a.release_flags,
        !.lock_owner = proto_minor >= 8 \/ "FLOCK_UNLOCK" \in a.release_flags ]

\* The Setlk arm that takes LOCK_NB for a sleeping request.
Operation_Setlk_nb_on_sleep(a) ==
    IF "FLOCK" \in a.lk_flags
    THEN IF a.typ \in { F_RDLCK, F_WRLCK, F_UNLCK }
         THEN [ NoOp EXCEPT !.variant = "Flock",
                  !.op = ( CASE a.typ = F_RDLCK -> LOCK_SH
                             [] a.typ = F_WRLCK -> LOCK_EX
                             [] a.typ = F_UNLCK -> LOCK_UN )
                         + ( IF a.sleep THEN LOCK_NB ELSE 0 ) ]
         ELSE [ NoOp EXCEPT !.variant = "EIO" ]
    ELSE [ NoOp EXCEPT !.variant = "Setlk", !.sleep = a.sleep ]

\* The Setlk arm: with FUSE_LK_FLOCK the lock type is turned into a flock
\* operation, LOCK_NB added unless the request sleeps, and a type that is
\* none of the three is answered with EIO; without the bit it is a Setlk.
Operation_Setlk(a) ==
    IF "FLOCK" \in a.lk_flags
    THEN IF a.typ \in { F_RDLCK, F_WRLCK, F_UNLCK }
         THEN [ NoOp EXCEPT !.variant = "Flock",
                  !.op = ( CASE a.typ = F_RDLCK -> LOCK_SH
                             [] a.typ = F_WRLCK -> LOCK_EX
                             [] a.typ = F_UNLCK -> LOCK_UN )
                         + ( IF a.sleep THEN 0 ELSE LOCK_NB ) ]
         ELSE [ NoOp EXCEPT !.variant = "EIO" ]
    ELSE [ NoOp EXCEPT !.variant = "Setlk", !.sleep = a.sleep ]

\* process, Release: run_op!(Operation::Release { .. })
ProcessRelease ==
    \E i \in Slots :
        /\ procs[i].pc = "dispatch"
        /\ procs[i].kind = "Release"
        /\ procs' = [ procs EXCEPT
                        ![i].pc = "handler",
                        ![i].op = Operation_Release(Session_proto_minor,
                                                    procs[i].arg) ]
        /\ UNCHANGED << initVars, sessVars, chanVars, userVars, state >>

\* process, Setlk: run_op!(Operation::Flock { .. }) or
\* run_op!(Operation::Setlk { .. })
ProcessSetlk ==
    \E i \in Slots :
        /\ procs[i].pc = "dispatch"
        /\ procs[i].kind = "Setlk"
        /\ Operation_Setlk(procs[i].arg).variant # "EIO"
        /\ procs' = [ procs EXCEPT
                        ![i].pc = "handler",
                        ![i].op = Operation_Setlk(procs[i].arg) ]
        /\ UNCHANGED << initVars, sessVars, chanVars, userVars, state >>

\* process, Setlk with FUSE_LK_FLOCK and an unknown lock type:
\* return cx.reply_err(libc::EIO).await
ProcessSetlkErr(W) ==
    \E i \in Slots, w \in W :
        /\ procs[i].pc = "dispatch"
        /\ procs[i].kind = "Setlk"
        /\ Operation_Setlk(procs[i].arg).variant = "EIO"
        /\ \E o \in Context_reply_err(procs[i].unique, EIO) :
             LET d == SendReplyDone(o, w)
             IN  /\ writer' = IF d.wrote THEN << d.frame >> ELSE writer
                 /\ procs' = [ procs EXCEPT ![i] =
                                 IF d.panic
                                 THEN [ @ EXCEPT !.pc = "panic" ]
                                 ELSE [ @ EXCEPT !.pc = "returned", !.ret = d.ret,
                                          !.nreplies = IF d.wrote THEN @ + 1 ELSE @ ] ]
        /\ UNCHANGED << initVars, sessVars, nwritten, userVars, state >>

\* The minor versions Session::start accepts with major 7.
ProtoMinors == { 6, 7, 8, 9 }

\* RELEASE requests with every combination of the two release flags, and
\* SETLK/SETLKW requests with and without the FLOCK bit, with the three lock
\* types and one that is none of them.
OpRequests ==
    { [ kind |-> "Release", unique |-> 42, target |-> 0, data |-> FALSE,
        arg |-> [ NoArg EXCEPT !.release_flags = f ] ]
        : f \in SUBSET { "FLUSH", "FLOCK_UNLOCK" } }
    \cup { [ kind |-> "Setlk", unique |-> 42, target |-> 0, data |-> FALSE,
             arg |-> [ NoArg EXCEPT !.lk_flags = f, !.typ = t, !.sleep = b ] ]
             : f \in SUBSET { "FLOCK" }, t \in 0 .. 3, b \in BOOLEAN }

\* A session started by an INIT of 7.6 or later.
InitOps ==
    /\ config = Config_default
    /\ attempt = 1
    /\ header = [ opcode |-> "FUSE_INIT", unique |-> KernelUnique(0) ]
    /\ arg \in { [ ZeroInitIn EXCEPT !.major = 7, !.minor = n ]
                   : n \in ProtoMinors }
    /\ nfields = 4
    /\ init_result = "Ok"
    /\ conn = NoConn
    /\ bufsize = BufSize(NoConn)
    /\ exited = FALSE
    /\ notify_unique = 0
    /\ writer = << >>
    /\ nwritten = 1
    /\ NoUsers
    /\ NoLow

NextOps ==
    \/ ProcessCall(OpRequests)
    \/ ProcessInterruptedCheck
    \/ ProcessRelease
    \/ ProcessSetlk
    \/ ProcessSetlkErr(WholeWrites)
    \/ HandlerReply(OneReply, WholeWrites)
    \/ HandlerReturn
    \/ ProcessDone

SpecOps == InitOps /\ [][NextOps]_vars

\* C32 as stated: a RELEASE handed to the filesystem has flush set iff the
\* FLUSH bit is set and the minor is at least 8, and flock_release set iff
\* the FLOCK_UNLOCK bit is set and the minor is at least 8.
C32_ReleaseFlagsBothGated ==
    \A i \in Slots :
        ( procs[i].kind = "Release" /\ procs[i].pc = "handler" )
          => /\ procs[i].op.flush
                  <=> ( "FLUSH" \in procs[i].arg.release_flags /\ arg.minor >= 8 )
             /\ procs[i].op.flock_release
                  <=> ( "FLOCK_UNLOCK" \in procs[i].arg.release_flags
                        /\ arg.minor >= 8 )

\* C32: a RELEASE handed to the filesystem has flush set iff the FLUSH bit
\* is set and the minor is at least 8, and flock_release set iff the
\* FLOCK_UNLOCK bit is set, whatever the minor.
C32_ReleaseFlags ==
    \A i \in Slots :
        ( procs[i].kind = "Release" /\ procs[i].pc = "handler" )
          => /\ procs[i].op.variant = "Release"
             /\ procs[i].op.flush
                  <=> ( "FLUSH" \in procs[i].arg.release_flags /\ arg.minor >= 8 )
             /\ procs[i].op.flock_release
                  <=> "FLOCK_UNLOCK" \in procs[i].arg.release_flags

\* C32: on a 7.7 session a RELEASE with both bits reached the filesystem
\* with flock_release set and flush clear.
C32_Witness ==
    \E i \in Slots :
        /\ procs[i].kind = "Release" /\ procs[i].pc = "handler"
        /\ arg.minor = 7
        /\ procs[i].arg.release_flags = { "FLUSH", "FLOCK_UNLOCK" }
        /\ procs[i].op.flock_release /\ ~procs[i].op.flush

\* The flock operation the lock type and the sleep flag stand for.
FlockOpOf(typ, sleep) ==
    ( CASE typ = 0 -> 1 [] typ = 1 -> 2 [] typ = 2 -> 8 )
    + ( IF sleep THEN 0 ELSE 4 )

\* C33: a SETLK or SETLKW with the FLOCK bit reaches the filesystem as a
\* Flock whose op is LOCK_SH, LOCK_EX or LOCK_UN for RDLCK, WRLCK or UNLCK,
\* with LOCK_NB exactly when sleep is false; without the bit it reaches it
\* as a Setlk; with the bit and another type it is answered with EIO and
\* the filesystem is not called.
C33_SetlkDispatch ==
    [][ \A i \in Slots :
          ( procs[i].kind = "Setlk" /\ procs[i].pc = "dispatch"
            /\ procs'[i].pc # "dispatch" )
            => LET a == procs[i].arg
               IN  IF "FLOCK" \notin a.lk_flags
                   THEN /\ procs'[i].pc = "handler"
                        /\ procs'[i].op.variant = "Setlk"
                        /\ procs'[i].op.sleep = a.sleep
                   ELSE IF a.typ \in { 0, 1, 2 }
                   THEN /\ procs'[i].pc = "handler"
                        /\ procs'[i].op.variant = "Flock"
                        /\ procs'[i].op.op = FlockOpOf(a.typ, a.sleep)
                   ELSE /\ procs'[i].pc \in { "returned", "panic" }
                        /\ procs'[i].op = NoOp
                        /\ procs'[i].ret = "Ok"
                             => /\ writer' = << ReplySender_error(procs[i].unique, EIO) >>
                                /\ procs'[i].nreplies = 1 ]_vars

\* C33: a non-sleeping write lock with the FLOCK bit is at the filesystem as
\* a Flock of LOCK_EX | LOCK_NB while the other call was answered with EIO.
C33_Witness ==
    \E i, j \in Slots :
        /\ procs[i].kind = "Setlk" /\ procs[i].pc = "handler"
        /\ procs[i].op.variant = "Flock" /\ procs[i].op.op = 6
        /\ procs[j].kind = "Setlk" /\ procs[j].pc = "returned"
        /\ procs[j].arg.typ = 3 /\ procs[j].nreplies = 1
        /\ writer[1].error = -5


\* ------------------------------------------------------------------------
\* The setters of Config (crates/polyfuse/src/session.rs)
\* ------------------------------------------------------------------------

\* a * b on u16: when the product does not fit, a build with overflow checks
\* panics and one without keeps the low 16 bits.
mul_u16(a, b) ==
    IF a * b > U16_MAX
    THEN { [ panic |-> TRUE, value |-> 0 ],
           [ panic |-> FALSE, value |-> (a * b) % (U16_MAX + 1) ] }
    ELSE { [ panic |-> FALSE, value |-> a * b ] }

\* Config::max_background
Config_max_background(cfg, max_background) ==
    [ cfg EXCEPT !.max_background = max_background ]

\* Config::congestion_threshold: the assertion, then the value computed from
\* max_background for 0; the set of its outcomes.
Config_congestion_threshold(cfg, threshold) ==
    IF threshold > cfg.max_background
    THEN { [ panic |-> TRUE, config |-> cfg ] }
    ELSE IF threshold = 0
    THEN { [ panic |-> m.panic,
             config |-> IF m.panic THEN cfg
                        ELSE [ cfg EXCEPT !.congestion_threshold = m.value \div 4 ] ]
           : m \in mul_u16(cfg.max_background, 3) }
    ELSE { [ panic |-> FALSE,
             config |-> [ cfg EXCEPT !.congestion_threshold = threshold ] ] }

\* The values the setters are called with.
MaxBackgrounds == { 0, 3, 8, 16, 21845, 21846, U16_MAX }
Thresholds == { 0, 2, 6, 9, 12, 21846, U16_MAX }

\* A call of config.max_background(v).
ConfigMaxBackground(V) ==
    \E v \in V :
        /\ ret.val # "panic"
        /\ config' = Config_max_background(config, v)
        /\ ret' = [ NoRet EXCEPT !.op = "max_background", !.val = "Ok" ]
        /\ UNCHANGED << attempt, header, arg, nfields, init_result, sessVars,
                        chanVars, pend, reqs, reading, lowVars >>

\* A call of config.congestion_threshold(t).
ConfigCongestionThreshold(T) ==
    \E t \in T :
        /\ ret.val # "panic"
        /\ \E o \in Config_congestion_threshold(config, t) :
             /\ config' = o.config
             /\ ret' = [ NoRet EXCEPT !.op = "congestion_threshold",
                           !.val = IF o.panic THEN "panic" ELSE "Ok" ]
        /\ UNCHANGED << attempt, header, arg, nfields, init_result, sessVars,
                        chanVars, pend, reqs, reading, lowVars >>

\* Config::default(), before any session is started with it.
InitConfig ==
    /\ config = Config_default
    /\ attempt = 0
    /\ header = NoHeader
    /\ arg = ZeroInitIn
    /\ nfields = 0
    /\ init_result = "running"
    /\ conn = NoConn
    /\ bufsize = BufSize(NoConn)
    /\ exited = FALSE
    /\ notify_unique = 0
    /\ writer = << >>
    /\ nwritten = 0
    /\ NoUsers
    /\ NoLow

NextConfig ==
    \/ ConfigMaxBackground(MaxBackgrounds)
    \/ ConfigCongestionThreshold(Thresholds)

SpecConfig == InitConfig /\ [][NextConfig]_vars

\* C34: congestion_threshold(t) panics when t is greater than
\* max_background; otherwise it stores t, and for t = 0 it stores
\* floor(3 * max_background / 4), for every u16 value of max_background.
C34_CongestionThreshold ==
    [][ \A t \in Thresholds :
          ConfigCongestionThreshold({ t })
            => IF t > config.max_background
               THEN ret'.val = "panic"
               ELSE /\ ret'.val = "Ok"
                    /\ config'.congestion_threshold =
                         IF t = 0 THEN (3 * config.max_background) \div 4
                                  ELSE t ]_vars

\* C38: as long as no setter has panicked, congestion_threshold is at most
\* max_background.
C38_ThresholdWithinBackground ==
    ret.val # "panic" => config.congestion_threshold <= config.max_background


\* ------------------------------------------------------------------------
\* Claims about the bytes the handshake decodes
\* ------------------------------------------------------------------------

\* C35: an INIT frame that carries a header but not a whole fuse_init_in is
\* a protocol error: it establishes no session and no reply is computed for
\* it from bytes that were not received in that frame.
C35_TruncatedInitIsRefused ==
    [][ ( attempt' = attempt + 1
          /\ header'.opcode = "FUSE_INIT"
          /\ nfields' < 4
          /\ init_result' \notin { "Err_read", "Err_InvalidData" } )
        => /\ init_result' \notin { "Ok", "running" }
           /\ nwritten' = nwritten
           /\ UNCHANGED conn ]_vars


\* ------------------------------------------------------------------------
\* Claims about the interrupt bookkeeping
\* ------------------------------------------------------------------------

\* C36: once process has returned for a request and no other call for the
\* same id is running, the id is neither in remains nor in interrupted.
C36_NothingLeftAfterReturn ==
    \A u \in LowUniques :
        ( /\ \E i \in Slots : /\ procs[i].unique = u
                              /\ procs[i].kind # "Interrupt"
                              /\ procs[i].pc = "returned"
          /\ \A i \in Slots : procs[i].unique = u => procs[i].pc = "returned" )
          => /\ ~state.remains[u].tx
             /\ u \notin state.interrupted

\* C37: the Interrupt a handler got from on_interrupt is ready only after an
\* INTERRUPT that targets its request was processed.
C37_ReadyOnlyAfterInterrupt ==
    \A i \in Slots :
        ( procs[i].pc = "handler" /\ Interrupt_ready(procs[i].sig) )
          => procs[i].nsig >= 1


\* ------------------------------------------------------------------------
\* Claims about the counter of notify_retrieve
\* ------------------------------------------------------------------------

\* The notify_retrieve calls among the calls the tasks make.
RetrieveCalls == { c \in NotifyCalls : c.op = "notify_retrieve" }

\* C39: a notify_retrieve called on a session that has exited fails, leaves
\* notify_unique as it is and writes nothing; one called on a live session
\* advances the counter by exactly one, before its write and whatever the
\* write gives; nothing else changes the counter.
C39_RetrieveCounter ==
    [][ /\ \A t \in Tasks :
             ( exited /\ NotifyCheck({ t }, RetrieveCalls) )
               => /\ ret'.val = "NotConnected"
                  /\ UNCHANGED << notify_unique, writer, pend >>
        /\ \A t \in Tasks :
             ( /\ pend[t].op = "notify_retrieve"
               /\ pend[t].stage = "alive"
               /\ pend'[t] # pend[t] )
               => /\ notify_unique' = notify_unique + 1
                  /\ pend'[t].stage = "fetched"
                  /\ UNCHANGED writer
        /\ \A t \in Tasks :
             ( /\ pend[t].op = "notify_retrieve"
               /\ pend[t].stage = "fetched"
               /\ pend'[t] # pend[t] )
               => /\ pend'[t] = NoCall
                  /\ UNCHANGED notify_unique
        /\ notify_unique' # notify_unique
             => \E t \in Tasks : /\ pend[t].op = "notify_retrieve"
                                 /\ pend[t].stage = "alive"
                                 /\ pend'[t].stage = "fetched" ]_vars

\* C39: the write of the first notify_retrieve failed, the session exited,
\* and a second call was refused: the counter stands at one and the channel
\* still holds the reply of the handshake, no notification.
C39_Witness ==
    /\ exited
    /\ ret.op = "notify_retrieve" /\ ret.val = "NotConnected"
    /\ notify_unique = 1
    /\ Len(writer) = 1 /\ writer[1].unique # 0
    /\ \A t \in Tasks : pend[t] = NoCall


\* ------------------------------------------------------------------------
\* The hello example (examples/hello/src/main.rs)
\* ------------------------------------------------------------------------

ROOT_INO == 1
HELLO_INO == 2
ENOTDIR == 20

\* The READDIR requests one run answers.
MaxDirReplies == 6

\* Hello::new: the entries of the root directory.
Hello_entries ==
    << [ name |-> ".", namelen |-> 1, ino |-> ROOT_INO ],
       [ name |-> "..", namelen |-> 2, ino |-> ROOT_INO ],
       [ name |-> "hello.txt", namelen |-> 9, ino |-> HELLO_INO ] >>

\* The bytes reply.add puts into the reply for an entry: a fuse_dirent of 24
\* bytes and the name, padded to a multiple of 8.
DirentSize(namelen) == 24 + ((namelen + 7) \div 8) * 8

\* The bytes of the entries of a reply.
RECURSIVE DirentsSize(_)
DirentsSize(entries) ==
    IF entries = << >> THEN 0
    ELSE DirentSize(entries[1].namelen) + DirentsSize(Tail(entries))

\* reply.send() on a ReplyDirs: the entries added are the payload.
Dirents(entries) ==
    [ t |-> "dirents", size |-> DirentsSize(entries), entries |-> entries ]

\* Hello::dir_entries: every entry with its index plus one.
Hello_dir_entries ==
    [ i \in 1 .. Len(Hello_entries) |->
        [ offset |-> (i - 1) + 1, ent |-> Hello_entries[i] ] ]

\* Iterator::skip(n)
Skip(seq, n) == IF n >= Len(seq) THEN << >> ELSE SubSeq(seq, n + 1, Len(seq))

\* Hello::readdir on the root: the entries after the first op.offset() ones
\* are added, each with i + 1 as its offset, until the reply is full; cap is
\* the number of entries the reply takes.
Hello_readdir(offset, cap) ==
    LET rest == Skip(Hello_dir_entries, offset)
        n    == IF cap < Len(rest) THEN cap ELSE Len(rest)
    IN  [ k \in 1 .. n |->
            [ name |-> rest[k].ent.name, namelen |-> rest[k].ent.namelen,
              ino |-> rest[k].ent.ino, off |-> rest[k].offset + 1 ] ]

\* The replies to READDIR on the channel that list entries, in order.
DirReplies(w) ==
    SelectSeq(w, LAMBDA f : f.payload.t = "dirents")

\* The entries the kernel has been given so far.
RECURSIVE Listed(_)
Listed(w) ==
    IF w = << >> THEN << >>
    ELSE Listed(SubSeq(w, 1, Len(w) - 1)) \o w[Len(w)].payload.entries

\* The offset of the next READDIR of the listing: the one recorded with the
\* last entry returned, 0 at the start.
NextOffset(w) ==
    LET l == Listed(DirReplies(w))
    IN  IF l = << >> THEN 0 ELSE l[Len(l)].off

\* The listing has ended: a READDIR on the root returned no entry.
ListingEnded(w) ==
    \E k \in 1 .. Len(w) :
        w[k].payload.t = "dirents" /\ w[k].payload.entries = << >>

\* How many entries a reply takes before it is full.
DirCapacities == 1 .. 3

\* One READDIR is answered by Hello::readdir: ENOTDIR for an inode other
\* than the root, the entries from the offset of the request otherwise.
HelloReaddir(I, K) ==
    \E ino \in I, cap \in K :
        /\ ~exited
        /\ Len(writer) < MaxDirReplies
        /\ ~ListingEnded(writer)
        /\ LET unique == KernelUnique(Len(writer))
           IN  writer' =
                 Append(writer,
                   IF ino # ROOT_INO
                   THEN ReplySender_error(unique, ENOTDIR)
                   ELSE ReplySender_reply(unique,
                          Dirents(Hello_readdir(NextOffset(writer), cap))))
        /\ UNCHANGED << initVars, sessVars, nwritten, userVars, lowVars >>

NextHello == HelloReaddir({ ROOT_INO, HELLO_INO }, DirCapacities)

SpecHello == InitSession /\ [][NextHello]_vars

\* C40: a listing of the root, each READDIR passing the offset recorded with
\* the last entry of the reply before, returns no entry twice and, when it
\* has ended, has returned '.', '..' and 'hello.txt'; a READDIR on another
\* inode is answered with ENOTDIR.
C40_ListingIsComplete ==
    [][ /\ \A k \in DirCapacities :
             HelloReaddir({ 1 }, { k })
               => LET l == Listed(DirReplies(writer'))
                  IN  /\ \A a, b \in 1 .. Len(l) : l[a].name = l[b].name => a = b
                      /\ ListingEnded(writer')
                           => { l[a].name : a \in 1 .. Len(l) }
                                = { ".", "..", "hello.txt" }
        /\ \A k \in DirCapacities :
             HelloReaddir({ 2 }, { k })
               => /\ writer'[Len(writer')].error = -20
                  /\ writer'[Len(writer')].payload = NoPayload ]_vars

====
